---- MODULE Spec2Model ----
(***************************************************************************)
(* SecureDesk session core: the host session (host.rs), the supervisor     *)
(* task and the approval command (main.rs), the headless listen loop       *)
(* (cli.rs) and the client's connect sequence and operations (client.rs),  *)
(* joined by the relay stream in both directions.                          *)
(***************************************************************************)
EXTENDS Integers, Sequences, FiniteSets, TLC

\* Number of session frames the technician peer writes in one run.
MaxSent == 3

\* Number of frontend tasks that run commands at the same time.
NumTasks == 2

\* Number of connects that get as far as drawing a session id.
MaxConnects == 2

\* RELAY_SERVERS has two entries.
NumRelays == 2

VARIABLES
    mode,           \* "gui": start_host_listener + supervisor task; "headless": run_headless_listen
    supPc,          \* position of the loop that drives run_once
    relayIdx,       \* index of the relay the reconnect loop tries next
    host_lock,      \* holder of AppState.host_session (tokio Mutex): "free", "sup", "ui"
    host_session,   \* AppState.host_session is "None" or "Some" (headless: the local session)
    host,           \* fields of the HostSession
    hostPc,         \* suspension point inside run_once_internal
    accepted,       \* local of the SESSION_REQUEST handler
    uiPc,           \* frontend: "idle", "dialog" (connection-request shown), "waiting" (respond_to_connection queued on host_session.lock())
    uiArg,          \* its accept argument
    uiResult,       \* its last return value
    clientPc,       \* position of the technician peer
    client,         \* fields of the ClientSession
    tcpQueued,      \* the client's TCP connect completed and waits in the host listener's backlog
    toHost,         \* frames on the relay stream towards the host (FIFO)
    toPeer,         \* frames on the relay stream towards the technician (FIFO)
    sent,           \* number of session frames the peer has written
    obs,            \* history of the current host session, for the properties
    unit,           \* one application of a codec or helper function: its input and result
    app,            \* AppState of the technician's side: session_counter, client_sessions, active_session_id
    cmd             \* the command each frontend task is running, and where it is

vars == <<mode, supPc, relayIdx, host_lock, host_session, host, hostPc, accepted,
          uiPc, uiArg, uiResult, clientPc, client, tcpQueued, toHost, toPeer, sent, obs,
          unit, app, cmd>>

\* The variables of the session machinery.
sessionVars == <<mode, supPc, relayIdx, host_lock, host_session, host, hostPc, accepted,
                 uiPc, uiArg, uiResult, clientPc, client, tcpQueued, toHost, toPeer, sent,
                 obs>>

uiVars == <<uiPc, uiArg, uiResult>>
clientVars == <<clientPc, client, tcpQueued, sent>>

\* ---------------------------------------------------------------- frames

Frm(ch, msg, arg) == [ch |-> ch, msg |-> msg, arg |-> arg]

\* Channel::try_from fails for a channel byte above 5: "Invalid".
Channel == {"Control", "Video", "Input", "Clipboard", "File", "Privacy"}

\* A frame as it travels: enc tells whether the payload is AEAD-sealed, via the
\* transport it was written on, ct the writer's connection_type at that time.
Wire(f, enc, via, ct) ==
    [ch |-> f.ch, msg |-> f.msg, arg |-> f.arg, enc |-> enc, via |-> via, ct |-> ct]

\* ---------------------------------------------------------------- Noise XK responder

\* A responder is the number of handshake messages it has processed.
create_responder == 0

\* XK: -> e,es (hs1)   <- e,ee (hs2)   -> s,se (hs3)
read_message(st, m) ==
    IF st = 0 /\ m = "hs1" THEN [ok |-> TRUE, st |-> 1]
    ELSE IF st = 2 /\ m = "hs3" THEN [ok |-> TRUE, st |-> 3]
    ELSE [ok |-> FALSE, st |-> st]

write_message(st) == IF st = 1 THEN 2 ELSE st

is_handshake_finished(st) == st = 3

\* ---------------------------------------------------------------- host session

NewHost ==
    [running |-> TRUE, channel |-> "None", connection_type |-> "Relay",
     p2p_stream |-> "None", p2p_enabled |-> TRUE, stream |-> "up",
     pending_connection |-> "None", response_rx |-> <<>>,
     black_screen |-> FALSE, input_blocked |-> FALSE]

NewObs ==
    [acted |-> FALSE, gotRequest |-> FALSE, sentAccept |-> FALSE,
     timedOut |-> FALSE, decision |-> "none", uiArgInWait |-> "none",
     hs2Sent |-> FALSE, hs3Done |-> FALSE,
     readFailed |-> FALSE, dispatchedAfterFail |-> FALSE,
     ended |-> FALSE, dispatchedAfterEnd |-> FALSE,
     reqWhilePending |-> FALSE, latePrompt |-> FALSE]

NewClient == [connection_type |-> "Relay", p2p_stream |-> "None", channel |-> "None",
              dial |-> "none"]

\* HostSession::read_frame on the frame at the head of the relay stream.
read_frame(h, f) ==
    IF h.stream # "up" THEN [ok |-> FALSE, frame |-> f]
    ELSE IF f.ch \notin Channel THEN [ok |-> FALSE, frame |-> f]
    ELSE IF h.channel = "Some"
         THEN IF f.enc THEN [ok |-> TRUE, frame |-> Frm(f.ch, f.msg, f.arg)]
                       ELSE [ok |-> FALSE, frame |-> f]
         ELSE [ok |-> TRUE,
               frame |-> IF f.enc THEN Frm(f.ch, "garbage", "garbage")
                                  ELSE Frm(f.ch, f.msg, f.arg)]

\* HostSession::write_frame: always on self.stream, sealed iff channel is Some.
write_frame(h, out, f) ==
    IF h.stream = "up"
    THEN [ok |-> TRUE,
          out |-> Append(out, Wire(f, h.channel = "Some", "relay", h.connection_type))]
    ELSE [ok |-> FALSE, out |-> out]

\* Result of a handler: ok is Ok(())/Err, next the suspension point it stops at.
Res(ok, h, out, next) == [ok |-> ok, h |-> h, out |-> out, next |-> next]

\* PrivacyMode::disable_all: the overlay window and the keyboard hook go.
disable_all(h) == [h EXCEPT !.black_screen = FALSE, !.input_blocked = FALSE]

\* Control(HANDSHAKE)
handle_handshake(h, out, f) ==
    LET rd == read_message(create_responder, f.arg) IN
    IF ~rd.ok THEN Res(FALSE, h, out, "done")
    ELSE LET st == write_message(rd.st)
             w  == write_frame(h, out, Frm("Control", "HANDSHAKE", "hs2"))
         IN IF ~w.ok THEN Res(FALSE, h, out, "done")
            ELSE Res(TRUE,
                     [h EXCEPT !.channel = IF is_handshake_finished(st) THEN "Some" ELSE @],
                     w.out, "done")

\* Control(SESSION_REQUEST), up to the approval wait
handle_session_request(h, out) ==
    Res(TRUE, [h EXCEPT !.pending_connection = "Some", !.response_rx = <<>>],
        out, "approval_wait")

\* Control(P2P_OFFER), up to the select. "info" is a decodable P2PInfo with
\* p2p_enabled set, as ClientSession::connect encodes it; listenerOk is the
\* outcome of create_p2p_listener.
handle_p2p_offer(h, out, f, listenerOk) ==
    IF f.arg # "info" THEN Res(TRUE, h, out, "done")
    ELSE LET w == write_frame(h, out, Frm("Control", "P2P_ANSWER", "info")) IN
         IF ~w.ok THEN Res(FALSE, h, out, "done")
         ELSE IF (f.arg = "info" \/ h.p2p_enabled) /\ listenerOk
              THEN Res(TRUE, h, w.out, "p2p_select")
              ELSE Res(TRUE, h, w.out, "done")

handle_control(h, out, f, listenerOk) ==
    CASE f.msg = "empty"           -> Res(TRUE, h, out, "done")
      [] f.msg = "HANDSHAKE"       -> handle_handshake(h, out, f)
      [] f.msg = "SESSION_REQUEST" -> handle_session_request(h, out)
      [] f.msg = "SESSION_END"     ->
            Res(TRUE, disable_all([h EXCEPT !.running = FALSE]), out, "done")
      [] f.msg = "KEEPALIVE"       ->
            LET w == write_frame(h, out, Frm("Control", "KEEPALIVE", "none")) IN
            Res(w.ok, h, w.out, "done")
      [] f.msg = "P2P_OFFER"       -> handle_p2p_offer(h, out, f, listenerOk)
      [] f.msg = "P2P_READY"       -> Res(TRUE, h, out, "done")
      [] f.msg = "P2P_FAILED"      ->
            Res(TRUE, [h EXCEPT !.connection_type = "Relay"], out, "done")
      [] OTHER                     -> Res(TRUE, h, out, "done")

handle_input(h, out, f) == Res(TRUE, h, out, "done")

\* The two status bytes in the other order.
privacy_status_Swapped(h) ==
    CASE h.black_screen /\ h.input_blocked   -> "0101"
      [] h.black_screen /\ ~h.input_blocked  -> "0001"
      [] ~h.black_screen /\ h.input_blocked  -> "0100"
      [] OTHER                                -> "0000"

\* The two status bytes of the acknowledgment: black screen, input block.
privacy_status(h) ==
    CASE h.black_screen /\ h.input_blocked   -> "0101"
      [] h.black_screen /\ ~h.input_blocked  -> "0100"
      [] ~h.black_screen /\ h.input_blocked  -> "0001"
      [] OTHER                                -> "0000"

handle_privacy(h, out, f) ==
    IF f.msg = "empty" THEN Res(TRUE, h, out, "done")
    ELSE LET h1 == CASE f.msg = "BLACK_SCREEN_ON"  -> [h EXCEPT !.black_screen = TRUE]
                     [] f.msg = "BLACK_SCREEN_OFF" -> [h EXCEPT !.black_screen = FALSE]
                     [] f.msg = "INPUT_BLOCK_ON"   -> [h EXCEPT !.input_blocked = TRUE]
                     [] f.msg = "INPUT_BLOCK_OFF"  -> [h EXCEPT !.input_blocked = FALSE]
                     [] OTHER -> h
             w  == write_frame(h1, out, Frm("Privacy", "STATUS_ACK", privacy_status(h1)))
         IN Res(w.ok, h1, w.out, "done")

send_video_frame(h, out) ==
    LET w == write_frame(h, out, Frm("Video", "KEYFRAME", "jpeg")) IN
    Res(w.ok, h, w.out, "done")

handle_clipboard(h, out, f) ==
    IF f.msg = "CLIPBOARD_REQUEST"
    THEN LET w == write_frame(h, out, Frm("Clipboard", "CLIPBOARD_DATA", "text")) IN
         Res(w.ok, h, w.out, "done")
    ELSE Res(TRUE, h, out, "done")

\* The match on frame.channel in run_once_internal.
dispatch(h, out, f, listenerOk) ==
    CASE f.ch = "Control"   -> handle_control(h, out, f, listenerOk)
      [] f.ch = "Input"     -> handle_input(h, out, f)
      [] f.ch = "Privacy"   -> handle_privacy(h, out, f)
      [] f.ch = "Video"     -> send_video_frame(h, out)
      [] f.ch = "Clipboard" -> handle_clipboard(h, out, f)
      [] OTHER              -> Res(TRUE, h, out, "done")

\* The host captured, injected, toggled or touched the clipboard for this frame.
ActsOn(f) ==
    \/ f.ch = "Video"
    \/ f.ch = "Input" /\ f.msg # "empty"
    \/ f.ch = "Privacy" /\ f.msg # "empty"
    \/ f.ch = "Clipboard" /\ f.msg \in {"CLIPBOARD_REQUEST", "CLIPBOARD_DATA"}

\* ---------------------------------------------------------------- run_once and its callers

\* The supervisor task's match on the result of run_once_with_events: Ok keeps
\* the session, Err clears it (the TLS stream closes, the relay pairing and the
\* technician's connection go with it) and goes to the reconnect delay.
SupervisorOnResult(ok, h, in, out, o) ==
    /\ hostPc' = "none"
    /\ host_lock' = "free"
    /\ IF ok
       THEN /\ host_session' = "Some"
            /\ host' = h
            /\ toHost' = in
            /\ toPeer' = out
            /\ obs' = o
            /\ supPc' = "loop"
            /\ UNCHANGED <<clientPc, client, sent>>
       ELSE /\ host_session' = "None"
            /\ host' = NewHost
            /\ toHost' = <<>>
            /\ toPeer' = <<>>
            /\ obs' = NewObs
            /\ supPc' = "sleep5"
            /\ clientPc' = "idle"
            /\ client' = NewClient
            /\ UNCHANGED sent

\* The headless loop's `if let Err(e) = session.run_once().await`: the same
\* session is run again after the delay.
HeadlessOnResult(ok, h, in, out, o) ==
    /\ hostPc' = "none"
    /\ host' = h
    /\ toHost' = in
    /\ toPeer' = out
    /\ obs' = o
    /\ supPc' = IF ok THEN "loop" ELSE "sleep5"
    /\ UNCHANGED <<host_lock, host_session, clientPc, client, sent>>

\* run_once_internal returns to whichever loop called it.
RunOnceReturn(ok, h, in, out, o) ==
    IF mode = "gui" THEN SupervisorOnResult(ok, h, in, out, o)
                    ELSE HeadlessOnResult(ok, h, in, out, o)

\* A handler that stops at an await inside run_once (approval wait, P2P select).
Suspend(h, in, out, o, next) ==
    /\ hostPc' = next
    /\ host' = h
    /\ toHost' = in
    /\ toPeer' = out
    /\ obs' = o
    /\ UNCHANGED <<supPc, host_lock, host_session, clientPc, client, sent>>

\* Supervisor task, top of the loop: lock host_session; run the session if
\* there is one, else drop the lock and sleep 100 ms.
SupAcquire ==
    /\ mode = "gui"
    /\ supPc = "loop"
    /\ host_lock = "free"
    /\ uiPc # "waiting"
    /\ IF host_session = "Some"
       THEN IF ~host.running
            THEN SupervisorOnResult(FALSE, host, toHost, toPeer, obs)
            ELSE /\ supPc' = "run"
                 /\ host_lock' = "sup"
                 /\ hostPc' = "read"
                 /\ UNCHANGED <<host_session, host, toHost, toPeer, obs, clientPc, client, sent>>
       ELSE /\ supPc' = "poll_sleep"
            /\ UNCHANGED <<host_lock, hostPc, host_session, host, toHost, toPeer, obs,
                           clientPc, client, sent>>
    /\ UNCHANGED <<mode, unit, app, cmd, relayIdx, accepted, uiVars, tcpQueued>>

SupPollWake ==
    /\ supPc = "poll_sleep"
    /\ supPc' = "loop"
    /\ UNCHANGED <<mode, unit, app, cmd, relayIdx, host_lock, host_session, host, hostPc, accepted,
                   uiVars, clientVars, toHost, toPeer, obs>>

\* End of the 5 s sleep in the supervisor: start the pass over relay_addresses.
SupReconnectWake ==
    /\ mode = "gui"
    /\ supPc = "sleep5"
    /\ supPc' = "dial"
    /\ relayIdx' = 1
    /\ UNCHANGED <<mode, unit, app, cmd, host_lock, host_session, host, hostPc, accepted,
                   uiVars, clientVars, toHost, toPeer, obs>>

\* One HostSession::start in the reconnect pass; ok is whether the relay
\* accepts the registration. After the last relay the task continues its loop.
SupDial(ok) ==
    /\ mode = "gui"
    /\ supPc = "dial"
    /\ host_lock = "free"
    /\ IF ok
       THEN /\ host_session' = "Some"
            /\ host' = NewHost
            /\ obs' = NewObs
            /\ supPc' = "loop"
            /\ relayIdx' = 1
       ELSE /\ IF relayIdx < NumRelays
               THEN supPc' = "dial" /\ relayIdx' = relayIdx + 1
               ELSE supPc' = "loop" /\ relayIdx' = 1
            /\ UNCHANGED <<host_session, host, obs>>
    /\ UNCHANGED <<mode, unit, app, cmd, host_lock, hostPc, accepted, uiVars, clientVars, toHost, toPeer>>

\* run_headless_listen: one turn of the loop enters run_once.
HeadlessIterate ==
    /\ mode = "headless"
    /\ supPc = "loop"
    /\ IF ~host.running
       THEN HeadlessOnResult(FALSE, host, toHost, toPeer, obs)
       ELSE /\ supPc' = "run"
            /\ hostPc' = "read"
            /\ UNCHANGED <<host_lock, host_session, host, toHost, toPeer, obs,
                           clientPc, client, sent>>
    /\ UNCHANGED <<mode, unit, app, cmd, relayIdx, accepted, uiVars, tcpQueued>>

HeadlessWake ==
    /\ mode = "headless"
    /\ supPc = "sleep5"
    /\ supPc' = "loop"
    /\ UNCHANGED <<mode, unit, app, cmd, relayIdx, host_lock, host_session, host, hostPc, accepted,
                   uiVars, clientVars, toHost, toPeer, obs>>

\* History kept for the properties when frame g is dispatched with result r.
Observe(o, g, r) ==
    LET isReq == g.ch = "Control" /\ g.msg = "SESSION_REQUEST"
        isHs  == g.ch = "Control" /\ g.msg = "HANDSHAKE"
        isEnd == g.ch = "Control" /\ g.msg = "SESSION_END"
    IN [o EXCEPT
          !.acted = @ \/ ActsOn(g),
          !.gotRequest = @ \/ isReq,
          !.timedOut = IF isReq THEN FALSE ELSE @,
          !.decision = IF isReq THEN "none" ELSE @,
          !.uiArgInWait = IF isReq THEN "none" ELSE @,
          !.hs2Sent = @ \/ (isHs /\ r.ok),
          !.hs3Done = @ \/ (isHs /\ g.arg = "hs3"),
          !.dispatchedAfterFail = @ \/ o.readFailed,
          !.ended = @ \/ isEnd,
          !.dispatchedAfterEnd = @ \/ o.ended,
          !.latePrompt = @ \/ (isReq /\ o.reqWhilePending)]

\* run_once_internal: the read fails on a closed relay stream.
HostReadError ==
    /\ supPc = "run"
    /\ hostPc = "read"
    /\ host.stream # "up"
    /\ RunOnceReturn(FALSE, host, toHost, toPeer, [obs EXCEPT !.readFailed = TRUE])
    /\ UNCHANGED <<mode, unit, app, cmd, relayIdx, accepted, uiVars, tcpQueued>>

\* run_once_internal: read one frame and dispatch it.
HostRunOnce ==
    /\ supPc = "run"
    /\ hostPc = "read"
    /\ host.stream = "up"
    /\ toHost # <<>>
    /\ LET f  == Head(toHost)
           rf == read_frame(host, f)
       IN IF ~rf.ok
          THEN RunOnceReturn(FALSE, host, Tail(toHost), toPeer,
                             [obs EXCEPT !.readFailed = TRUE])
          ELSE \E listenerOk \in (IF rf.frame.msg = "P2P_OFFER" THEN BOOLEAN ELSE {TRUE}) :
                 LET r == dispatch(host, toPeer, rf.frame, listenerOk)
                     o == Observe(obs, rf.frame, r)
                 IN IF r.ok /\ r.next # "done"
                    THEN Suspend(r.h, Tail(toHost), r.out, o, r.next)
                    ELSE RunOnceReturn(r.ok, r.h, Tail(toHost), r.out, o)
    /\ uiPc' = IF /\ mode = "gui"
                  /\ uiPc = "idle"
                  /\ read_frame(host, Head(toHost)).ok
                  /\ read_frame(host, Head(toHost)).frame.ch = "Control"
                  /\ read_frame(host, Head(toHost)).frame.msg = "SESSION_REQUEST"
               THEN "dialog" ELSE uiPc
    /\ UNCHANGED <<mode, unit, app, cmd, relayIdx, accepted, uiArg, uiResult, tcpQueued>>

\* ---------------------------------------------------------------- approval

\* Mutant: the timeout counts as an approval (unwrap_or(true)).
approval_outcome_TimeoutAccepts(rx) == IF rx # <<>> THEN Head(rx) ELSE TRUE

\* timeout(30 s, rx.recv()).await.unwrap_or(None).unwrap_or(false)
approval_outcome(rx) == IF rx # <<>> THEN Head(rx) ELSE FALSE

\* The frame written once the wait is over.
decision_frame(acc) ==
    IF acc THEN Frm("Control", "SESSION_ACCEPT", "01")
           ELSE Frm("Control", "SESSION_END", "00")

\* The wait ends, by a reply or by the timeout, and the pending slot is cleared
\* (no await between the two).
ApprovalResolve ==
    /\ hostPc = "approval_wait"
    /\ accepted' = approval_outcome(host.response_rx)
    /\ host' = [host EXCEPT !.pending_connection = "None", !.response_rx = <<>>]
    /\ obs' = [obs EXCEPT
                 !.timedOut = (host.response_rx = <<>>),
                 !.reqWhilePending =
                     @ \/ \E i \in DOMAIN toHost :
                            toHost[i].ch = "Control" /\ toHost[i].msg = "SESSION_REQUEST"]
    /\ hostPc' = "approval_send"
    /\ UNCHANGED <<mode, unit, app, cmd, supPc, relayIdx, host_lock, host_session, uiVars, clientVars,
                   toHost, toPeer>>

\* SESSION_ACCEPT [0x01] or SESSION_END [0x00] is written and the handler returns.
ApprovalSend ==
    /\ hostPc = "approval_send"
    /\ LET w == write_frame(host, toPeer, decision_frame(accepted))
           o == IF w.ok
                THEN [obs EXCEPT !.decision = IF accepted THEN "accept" ELSE "end",
                                 !.sentAccept = @ \/ accepted]
                ELSE obs
       IN RunOnceReturn(w.ok, host, toHost, w.out, o)
    /\ UNCHANGED <<mode, unit, app, cmd, relayIdx, accepted, uiVars, tcpQueued>>

\* The operator answers the approval dialog: respond_to_connection(accept) is
\* invoked and queues on host_session.lock().
UiRespondCall(accept) ==
    /\ mode = "gui"
    /\ uiPc = "dialog"
    /\ uiPc' = "waiting"
    /\ uiArg' = accept
    /\ obs' = IF hostPc = "approval_wait"
              THEN [obs EXCEPT !.uiArgInWait = IF accept THEN "true" ELSE "false"]
              ELSE obs
    /\ UNCHANGED <<mode, unit, app, cmd, supPc, relayIdx, host_lock, host_session, host, hostPc, accepted,
                   uiResult, clientVars, toHost, toPeer>>

\* respond_to_connection gets the lock and runs its body (it has no await
\* after the lock).
UiRespondRun ==
    /\ uiPc = "waiting"
    /\ host_lock = "free"
    /\ uiPc' = "idle"
    /\ uiArg' = FALSE
    /\ IF host_session = "Some"
       THEN IF host.pending_connection = "Some"
            THEN /\ host' = [host EXCEPT
                               !.pending_connection = "None",
                               !.response_rx = IF Len(@) < 1 THEN Append(@, uiArg) ELSE @]
                 /\ uiResult' = "Ok"
            ELSE /\ uiResult' = "No pending connection"
                 /\ UNCHANGED host
       ELSE /\ uiResult' = "No host session active"
            /\ UNCHANGED host
    /\ UNCHANGED <<mode, unit, app, cmd, supPc, relayIdx, host_lock, host_session, hostPc, accepted,
                   clientVars, toHost, toPeer, obs>>

\* ---------------------------------------------------------------- P2P wait on the host

\* The first payload byte of a frame of the model.
first_payload_byte(f) ==
    CASE f.msg \in {"HANDSHAKE", "BLACK_SCREEN_ON", "CLIPBOARD_REQUEST"} -> 1
      [] f.msg = "SESSION_REQUEST" -> 2
      [] f.msg \in {"INPUT_BLOCK_ON", "REQUEST"} -> 3
      [] f.msg \in {"SESSION_END", "KEY_DOWN"} -> 4
      [] f.msg = "P2P_OFFER" -> 16
      [] f.msg = "P2P_READY" -> 18
      [] f.msg = "P2P_FAILED" -> 19
      [] OTHER -> 255

\* What is left of the frame at the head of the relay stream when read_frame
\* is dropped between its two read_exact calls: the header is gone, so the
\* next header starts at the first payload byte, which is then the channel
\* byte.
torn_frame(f) ==
    LET b == first_payload_byte(f)
        names == <<"Control", "Video", "Input", "Clipboard", "File", "Privacy">>
    IN  Wire(Frm(IF b + 1 \in DOMAIN names THEN names[b + 1] ELSE "Invalid",
                 "garbage", "garbage"),
             f.enc, f.via, f.ct)

\* The relay stream after select! drops the unfinished read_frame future: as it
\* was when the future had read nothing or had not been polled, and with the
\* head frame torn when its header had arrived before its payload.
cancel_read_frame(h, in) ==
    {in} \cup (IF h.stream = "up" /\ in # <<>> /\ Head(in).msg \notin {"empty", "garbage"}
               THEN {<<torn_frame(Head(in))>> \o Tail(in)} ELSE {})

\* select!: accept_p2p_connection returns a connection.
SelectAccept ==
    /\ hostPc = "p2p_select"
    /\ tcpQueued
    /\ tcpQueued' = FALSE
    /\ \E in \in cancel_read_frame(host, toHost) :
         RunOnceReturn(TRUE, [host EXCEPT !.p2p_stream = "Some", !.connection_type = "P2P"],
                       in, toPeer, obs)
    /\ UNCHANGED <<mode, unit, app, cmd, relayIdx, accepted, uiVars>>

\* Mutant: the accept timeout is returned as an error and leaves the handler
\* through `?`.
SelectAcceptTimeout_Err ==
    /\ hostPc = "p2p_select"
    /\ ~tcpQueued
    /\ RunOnceReturn(FALSE, host, toHost, toPeer, obs)
    /\ UNCHANGED <<mode, unit, app, cmd, relayIdx, accepted, uiVars, tcpQueued>>

\* select!: accept_p2p_connection times out after 5 s (Ok(None)).
SelectAcceptTimeout ==
    /\ hostPc = "p2p_select"
    /\ ~tcpQueued
    /\ \E in \in cancel_read_frame(host, toHost) :
         RunOnceReturn(TRUE, host, in, toPeer, obs)
    /\ UNCHANGED <<mode, unit, app, cmd, relayIdx, accepted, uiVars, tcpQueued>>

\* select!: the relay read completes first. The frame is consumed here; an Err
\* is dropped by `if let Ok(f)`; the listener is closed when the block ends.
SelectRelayRead ==
    /\ hostPc = "p2p_select"
    /\ host.stream # "up" \/ toHost # <<>>
    /\ tcpQueued' = FALSE
    /\ IF host.stream # "up"
       THEN RunOnceReturn(TRUE, host, toHost, toPeer, [obs EXCEPT !.readFailed = TRUE])
       ELSE LET rf == read_frame(host, Head(toHost)) IN
            IF ~rf.ok
            THEN RunOnceReturn(TRUE, host, Tail(toHost), toPeer,
                               [obs EXCEPT !.readFailed = TRUE])
            ELSE IF rf.frame.ch = "Control" /\ rf.frame.msg = "P2P_FAILED"
            THEN RunOnceReturn(TRUE, host, Tail(toHost), toPeer, obs)
            ELSE IF rf.frame.msg = "empty"
            THEN \* f.payload[0] on an empty payload: the task panics
                 /\ supPc' = "panicked"
                 /\ hostPc' = "none"
                 /\ host_lock' = "free"
                 /\ toHost' = Tail(toHost)
                 /\ UNCHANGED <<host_session, host, toPeer, obs, clientPc, client, sent>>
            ELSE RunOnceReturn(TRUE, host, Tail(toHost), toPeer, obs)
    /\ UNCHANGED <<mode, unit, app, cmd, relayIdx, accepted, uiVars>>

\* ---------------------------------------------------------------- technician peer

\* ClientSession::write_frame_to_stream: plaintext on the relay stream (ct is
\* the writer's connection type at that moment, kept for the properties).
write_frame_to_stream(q, f, ct) == Append(q, Wire(f, FALSE, "relay", ct))

\* Mutant: the payload is sealed whatever channel is.
client_write_frame_Sealed(c, q, f) ==
    Append(q, Wire(f, TRUE, "relay", c.connection_type))

\* ClientSession::write_frame: always on self.stream, sealed iff channel is Some.
client_write_frame(c, q, f) ==
    Append(q, Wire(f, c.channel = "Some", "relay", c.connection_type))

\* ClientSession::connect: registration accepted by the relay, then P2P_OFFER.
ClientConnect ==
    /\ clientPc = "idle"
    /\ host_session = "Some"
    /\ host.stream = "up"
    /\ clientPc' = "await_answer"
    /\ client' = NewClient
    /\ toHost' = write_frame_to_stream(toHost, Frm("Control", "P2P_OFFER", "info"), "Relay")
    /\ UNCHANGED <<mode, unit, app, cmd, supPc, relayIdx, host_lock, host_session, host, hostPc, accepted,
                   uiVars, tcpQueued, toPeer, sent, obs>>

\* connect_with_p2p: the frame read after the offer.
ClientRecvAnswer ==
    /\ clientPc = "await_answer"
    /\ toPeer # <<>>
    /\ LET f == Head(toPeer) IN
       clientPc' = IF f.ch = "Control" /\ f.msg = "P2P_ANSWER" /\ f.arg = "info"
                   THEN "dialing" ELSE "session"
    /\ toPeer' = Tail(toPeer)
    /\ UNCHANGED <<mode, unit, app, cmd, supPc, relayIdx, host_lock, host_session, host, hostPc, accepted,
                   uiVars, client, tcpQueued, toHost, sent, obs>>

\* connect_with_p2p: attempt_p2p_connection returned; ok means a dial got
\* through, which needs the host's listener to be bound.
ClientDial(ok) ==
    /\ clientPc = "dialing"
    /\ ok => hostPc = "p2p_select"
    /\ clientPc' = "session"
    /\ IF ok
       THEN /\ client' = [client EXCEPT !.p2p_stream = "Some", !.connection_type = "P2P",
                                        !.dial = "ok"]
            /\ tcpQueued' = TRUE
            /\ toHost' = write_frame_to_stream(toHost, Frm("Control", "P2P_READY", "none"), "P2P")
       ELSE /\ client' = [client EXCEPT !.dial = "failed"]
            /\ tcpQueued' = tcpQueued
            /\ toHost' = write_frame_to_stream(toHost, Frm("Control", "P2P_FAILED", "none"), "Relay")
    /\ UNCHANGED <<mode, unit, app, cmd, supPc, relayIdx, host_lock, host_session, host, hostPc, accepted,
                   uiVars, toPeer, sent, obs>>

\* The frames of the public client operations.
ClientOps ==
    [set_black_screen |-> Frm("Privacy", "BLACK_SCREEN_ON", "none"),
     set_input_block  |-> Frm("Privacy", "INPUT_BLOCK_ON", "none"),
     send_key         |-> Frm("Input", "KEY_DOWN", "key"),
     request_frame    |-> Frm("Video", "REQUEST", "none"),
     disconnect       |-> Frm("Control", "SESSION_END", "none")]

\* set_black_screen(true), set_input_block(true), send_key, request_frame, disconnect
ClientOp(op) ==
    /\ clientPc = "session"
    /\ sent < MaxSent
    /\ sent' = sent + 1
    /\ toHost' = client_write_frame(client, toHost, ClientOps[op])
    /\ clientPc' = IF op = "disconnect" THEN "closed" ELSE clientPc
    /\ UNCHANGED <<mode, unit, app, cmd, supPc, relayIdx, host_lock, host_session, host, hostPc, accepted,
                   uiVars, client, tcpQueued, toPeer, obs>>

\* Frames of the protocol that client.rs has no operation for, and a header
\* whose channel byte is not a Channel (length 0).
RawFrames ==
    {Frm("Control", "HANDSHAKE", "hs1"), Frm("Control", "HANDSHAKE", "hs3"),
     Frm("Control", "SESSION_REQUEST", "id"),
     Frm("Clipboard", "CLIPBOARD_REQUEST", "none"), Frm("Invalid", "empty", "none")}

\* A technician peer writes one of them on the relay; the last handshake
\* message only after the host's reply to the first.
PeerSendRaw(f) ==
    /\ clientPc = "session"
    /\ sent < MaxSent
    /\ f.arg = "hs3" => obs.hs2Sent
    /\ sent' = sent + 1
    /\ toHost' = write_frame_to_stream(toHost, f, client.connection_type)
    /\ UNCHANGED <<mode, unit, app, cmd, supPc, relayIdx, host_lock, host_session, host, hostPc, accepted,
                   uiVars, clientPc, client, tcpQueued, toPeer, obs>>

\* The relay connection of the host breaks.
RelayDrop ==
    /\ host_session = "Some"
    /\ host.stream = "up"
    /\ host' = [host EXCEPT !.stream = "down"]
    /\ UNCHANGED <<mode, unit, app, cmd, supPc, relayIdx, host_lock, host_session, hostPc, accepted,
                   uiVars, clientVars, toHost, toPeer, obs>>

\* ---------------------------------------------------------------- P2PInfo codec

\* Option<T>: <<>> is None, <<v>> is Some(v).
None == <<>>
Some(v) == <<v>>

Ok(v) == [ok |-> TRUE, val |-> v]
Err(e) == [ok |-> FALSE, val |-> e]

\* The two bytes of a u16, lowest first.
to_be_bytes_LittleEndian(p) == <<p % 256, p \div 256>>

\* u16::to_be_bytes
to_be_bytes(p) == <<p \div 256, p % 256>>

\* u16::from_be_bytes
from_be_bytes(hi, lo) == hi * 256 + lo

\* A SocketAddr: family 4 with 4 octets or family 6 with 16 octets, and a port.
SocketAddr(fam, ip, port) == [fam |-> fam, ip |-> ip, port |-> port]

\* The bytes P2PInfo::encode pushes for one Option<SocketAddr>.
encode_opt_addr(o) ==
    IF o = None THEN <<0>>
    ELSE <<1, o[1].fam>> \o o[1].ip \o to_be_bytes(o[1].port)

\* P2PInfo::encode
P2PInfo_encode(x) ==
    <<IF x.p2p_enabled THEN 1 ELSE 0>>
        \o encode_opt_addr(x.public_addr) \o encode_opt_addr(x.local_addr)

\* &data[pos..] with a 0-based pos
slice_from(data, pos) == SubSeq(data, pos + 1, Len(data))

\* P2PInfo::decode_addr
decode_addr(d) ==
    IF d = <<>> THEN Err("No address data")
    ELSE IF d[1] = 4
         THEN IF Len(d) < 7 THEN Err("Invalid IPv4 address")
              ELSE Ok(SocketAddr(4, SubSeq(d, 2, 5), from_be_bytes(d[6], d[7])))
    ELSE IF d[1] = 6
         THEN IF Len(d) < 19 THEN Err("Invalid IPv6 address")
              ELSE Ok(SocketAddr(6, SubSeq(d, 2, 17), from_be_bytes(d[18], d[19])))
    ELSE Err("Invalid IP version")

\* P2PInfo::decode. pos is the 0-based cursor of the source; data[i] of the
\* source is data[i + 1] here.
P2PInfo_decode(data) ==
    IF data = <<>> THEN Err("Empty P2P info")
    ELSE
    LET p2p_enabled == data[1] # 0
        hasPub == 1 < Len(data) /\ data[2] = 1
        pos1   == IF hasPub THEN 2 ELSE IF 1 < Len(data) THEN 2 ELSE 1
        pub    == IF hasPub THEN decode_addr(slice_from(data, pos1)) ELSE Ok(None)
        \* data.get(pos - 1) == Some(&4)
        pos2   == IF hasPub
                  THEN pos1 + (IF pos1 - 1 < Len(data) /\ data[pos1] = 4 THEN 6 ELSE 18)
                  ELSE pos1
        hasLoc == pos2 < Len(data) /\ data[pos2 + 1] = 1
        loc    == IF hasLoc THEN decode_addr(slice_from(data, pos2 + 1)) ELSE Ok(None)
    IN IF ~pub.ok THEN pub
       ELSE IF ~loc.ok THEN loc
       ELSE Ok([public_addr |-> IF hasPub THEN Some(pub.val) ELSE None,
                local_addr  |-> IF hasLoc THEN Some(loc.val) ELSE None,
                p2p_enabled |-> p2p_enabled])

\* Sample addresses: ports with low byte 1 and not, an IPv6 address with the
\* bytes 1, 4 in its middle.
SamplePorts == {1, 443, 40000, 65535}
SampleV4 == {<<192, 168, 1, 10>>, <<203, 0, 113, 5>>}
SampleV6 == {<<0, 0, 0, 0, 0, 0, 0, 0, 0, 0, 0, 0, 0, 0, 0, 1>>,
             <<32, 1, 13, 184, 0, 0, 0, 0, 0, 1, 4, 0, 0, 0, 0, 7>>}
SampleAddrs ==
    {SocketAddr(4, ip, p) : ip \in SampleV4, p \in SamplePorts}
        \cup {SocketAddr(6, ip, p) : ip \in SampleV6, p \in SamplePorts}
OptAddrs == {None} \cup {Some(a) : a \in SampleAddrs}
P2PInfos == [public_addr : OptAddrs, local_addr : OptAddrs, p2p_enabled : BOOLEAN]

\* decode(encode(x)) for one P2PInfo
UnitP2PInfo ==
    /\ unit.fn = "none"
    /\ \E x \in P2PInfos :
         unit' = [fn |-> "P2PInfo", in |-> x, out |-> P2PInfo_decode(P2PInfo_encode(x))]
    /\ UNCHANGED <<sessionVars, app, cmd>>

\* ---------------------------------------------------------------- Frame codec

MAX_FRAME_SIZE == 16 * 1024 * 1024

\* `as u8`
u8(n) == n % 256

\* `n >> k` on usize
shr(n, k) == n \div (2 ^ k)

\* Channel as u8, and Channel::try_from
ChannelNames == <<"Control", "Video", "Input", "Clipboard", "File", "Privacy">>
channel_as_u8(c) == (CHOOSE i \in DOMAIN ChannelNames : ChannelNames[i] = c) - 1
Channel_try_from(b) ==
    IF b + 1 \in DOMAIN ChannelNames THEN Ok(ChannelNames[b + 1]) ELSE Err("Invalid channel")

\* A byte string of len bytes, each equal to fill (long payloads are not
\* enumerated byte by byte).
Run(len, fill) == [len |-> len, fill |-> IF len = 0 THEN 0 ELSE fill]

\* The 4-byte header both Frame::to_bytes and write_frame build.
frame_header(channel, len) ==
    <<channel_as_u8(channel), u8(shr(len, 16)), u8(shr(len, 8)), u8(len)>>

\* The length a header declares.
declared_len(hdr) == hdr[2] * 65536 + hdr[3] * 256 + hdr[4]

\* Frame::to_bytes: header bytes, then the payload.
to_bytes(f) == [hdr |-> frame_header(f.channel, f.payload.len), body |-> f.payload]

\* Frame::from_bytes on hdr followed by body.
from_bytes(d) ==
    IF Len(d.hdr) + d.body.len < 4 THEN Err("Frame too short")
    ELSE LET channel == Channel_try_from(d.hdr[1])
             len     == declared_len(d.hdr)
         IN IF ~channel.ok THEN channel
            ELSE IF len > MAX_FRAME_SIZE THEN Err("Frame too large")
            ELSE IF 4 + d.body.len < 4 + len THEN Err("Frame incomplete")
            ELSE Ok([channel |-> channel.val, payload |-> Run(len, d.body.fill)])

\* SecureChannel::encrypt, by length: the ciphertext is 16 bytes longer; a
\* Noise transport message is at most 65535 bytes, beyond that write_message
\* returns an error.
encrypt(len) == IF len + 16 > 65535 THEN Err("Input") ELSE Ok(len + 16)

\* What HostSession::write_frame and ClientSession::write_frame put on the
\* stream for frame f, with or without a Secure Channel.
write_frame_bytes(sealed, f) ==
    LET payload == IF sealed THEN encrypt(f.payload.len) ELSE Ok(f.payload.len) IN
    IF ~payload.ok THEN payload
    ELSE Ok([hdr |-> frame_header(f.channel, payload.val),
             body |-> Run(payload.val, f.payload.fill)])

\* Payload lengths around the byte boundaries of the length field.
SampleLens == {0, 1, 255, 256, 65519, 65520, 65536, 16777215, 16777216, 16777217, 16777472}
SampleFrames ==
    {[channel |-> c, payload |-> Run(n, b)] :
        c \in Channel, n \in SampleLens, b \in {0, 170}}

\* Headers as they may arrive: channel bytes inside and outside the enum, the
\* extreme length bytes, with 0 or 2 payload bytes behind them.
SampleHeaders ==
    {<<c, b1, b2, b3>> : c \in {0, 5, 6, 9, 255}, b1 \in {0, 255}, b2 \in {0, 255},
                         b3 \in {0, 2, 255}}

\* from_bytes(to_bytes(f)) for one frame
UnitFrame ==
    /\ unit.fn = "none"
    /\ \E f \in SampleFrames :
         unit' = [fn |-> "Frame", in |-> f, wire |-> to_bytes(f),
                  out |-> from_bytes(to_bytes(f))]
    /\ UNCHANGED <<sessionVars, app, cmd>>

\* from_bytes on one received header
UnitFromBytes ==
    /\ unit.fn = "none"
    /\ \E hdr \in SampleHeaders, n \in {0, 2} :
         LET d == [hdr |-> hdr, body |-> Run(n, 170)] IN
         unit' = [fn |-> "from_bytes", in |-> d, out |-> from_bytes(d)]
    /\ UNCHANGED <<sessionVars, app, cmd>>

\* write_frame for one frame, with and without a Secure Channel
UnitWriteFrame ==
    /\ unit.fn = "none"
    /\ \E f \in SampleFrames, sealed \in BOOLEAN :
         unit' = [fn |-> "write_frame", in |-> f, sealed |-> sealed,
                  out |-> write_frame_bytes(sealed, f)]
    /\ UNCHANGED <<sessionVars, app, cmd>>

\* ---------------------------------------------------------------- connect, configuration, identity

\* connect_with_p2p from the registration reply on: channel is the reply's
\* raw channel byte, payload its bytes. Only a Control frame starting with
\* 0xFF stops the connect; sent lists the frames written after the reply.
connect_after_reply(channel, payload, p2p_enabled) ==
    IF channel = 0 /\ payload # <<>> /\ payload[1] = 255
    THEN [ok |-> FALSE, err |-> Tail(payload), sent |-> <<>>]
    ELSE [ok |-> TRUE, err |-> <<>>,
          sent |-> IF p2p_enabled THEN <<Frm("Control", "P2P_OFFER", "info")>> ELSE <<>>]

\* Replies a relay may send: the two documented ones and others.
SampleReplies ==
    {[channel |-> c, payload |-> pl] :
        c \in {0, 1, 5, 9},
        pl \in {<<>>, <<1>>, <<0>>, <<2>>, <<255>>, <<255, 110, 111>>, <<1, 255>>}}

UnitConnectReply ==
    /\ unit.fn = "none"
    /\ \E r \in SampleReplies, p2p \in BOOLEAN :
         unit' = [fn |-> "connect", in |-> r, p2p_enabled |-> p2p,
                  out |-> connect_after_reply(r.channel, r.payload, p2p)]
    /\ UNCHANGED <<sessionVars, app, cmd>>

\* The p2p_enabled argument connect_to_remote hands to connect_with_p2p
\* (through ClientSession::connect) when the configuration holds config_p2p.
connect_p2p_enabled(config_p2p) == TRUE

\* The p2p_enabled argument start_host_listener hands to start_with_p2p
\* (through HostSession::start) when the configuration holds config_p2p.
start_p2p_enabled(config_p2p) == TRUE

\* A connect and a host start under one configuration value, and the host's
\* handling of the offer the client sends, if any.
UnitP2PConfig ==
    /\ unit.fn = "none"
    /\ \E config_p2p \in BOOLEAN :
         LET c == connect_after_reply(0, <<1>>, connect_p2p_enabled(config_p2p))
             h == [NewHost EXCEPT !.p2p_enabled = start_p2p_enabled(config_p2p)]
             r == handle_p2p_offer(h, <<>>, Frm("Control", "P2P_OFFER", "info"), TRUE)
         IN unit' = [fn |-> "p2p_config", in |-> config_p2p,
                     clientSent |-> c.sent,
                     host_p2p_enabled |-> h.p2p_enabled,
                     hostListens |-> (c.sent # <<>> /\ r.next = "p2p_select")]
    /\ UNCHANGED <<sessionVars, app, cmd>>

\* Identity::load on a file of len bytes
Identity_load(len) ==
    IF len # 64 THEN Err("Invalid identity file")
    ELSE Ok([identity |-> "loaded", file |-> Some(len)])

\* Identity::load_or_create: file is None when the path does not exist, else
\* Some(length). The result carries the file as it is afterwards.
load_or_create(file) ==
    IF file # None THEN Identity_load(file[1])
    ELSE Ok([identity |-> "generated", file |-> Some(64)])

UnitLoadOrCreate ==
    /\ unit.fn = "none"
    /\ \E file \in {None} \cup {Some(n) : n \in {0, 32, 63, 64, 65, 128}} :
         unit' = [fn |-> "load_or_create", in |-> file, out |-> load_or_create(file)]
    /\ UNCHANGED <<sessionVars, app, cmd>>

\* ---------------------------------------------------------------- identity regeneration

\* The identity file: None when absent, else Some of whose keys it holds and
\* how many of the 64 bytes are on disk.
IdentityFile(identity, len) == Some([identity |-> identity, len |-> len])

\* Where a run of regenerate can stop: a step returning Err (propagated by ?)
\* or the process dying between or inside steps.
RegenerateFaults ==
    {[at |-> "none", written |-> 64],
     [at |-> "remove_file", written |-> 0],
     [at |-> "after_remove_file", written |-> 0],
     [at |-> "create_dir_all", written |-> 0]}
    \cup {[at |-> "write", written |-> k] : k \in {0, 1, 32, 63}}

\* Identity::save: create_dir_all(parent)?, then fs::write(path, data)?, which
\* creates or truncates the file in place and then writes the 64 bytes.
save(file, fault) ==
    IF fault.at = "create_dir_all" THEN [file |-> file, result |-> Err("io")]
    ELSE IF fault.at = "write"
    THEN [file |-> IdentityFile("new", fault.written), result |-> Err("io")]
    ELSE [file |-> IdentityFile("new", 64), result |-> Ok("new")]

\* Identity::regenerate: remove the file if it exists, generate, save.
regenerate(file, fault) ==
    IF file # None /\ fault.at = "remove_file"
    THEN [file |-> file, result |-> Err("io")]
    ELSE IF fault.at = "after_remove_file"
    THEN [file |-> None, result |-> Err("killed")]
    ELSE save(None, fault)

UnitRegenerate ==
    /\ unit.fn = "none"
    /\ \E file \in {None, IdentityFile("old", 64)}, fault \in RegenerateFaults :
         unit' = [fn |-> "regenerate", in |-> [file |-> file, fault |-> fault],
                  out |-> regenerate(file, fault)]
    /\ UNCHANGED <<sessionVars, app, cmd>>

\* ---------------------------------------------------------------- P2P port choice

\* A u32 as its two 16-bit halves.
U32(hi, lo) == [hi |-> hi, lo |-> lo]

\* u32::wrapping_mul(31) followed by wrapping_add(b as u32), b a byte.
wrapping_mul_add(acc, b) ==
    LET low == acc.lo * 31 + b
    IN  U32((acc.hi * 31 + low \div 65536) % 65536, low % 65536)

RECURSIVE fold_hash(_, _)
\* device_id.bytes().fold(acc, |acc, b| acc.wrapping_mul(31).wrapping_add(b))
fold_hash(acc, bytes) ==
    IF bytes = <<>> THEN acc
    ELSE fold_hash(wrapping_mul_add(acc, Head(bytes)), Tail(bytes))

\* `hash as u16`: the low 16 bits.
as_u16(h) == h.lo

base_port == 49152

\* A range reaching past the end of the u16 ports.
port_range_Wide == base_port + 16383

port_range == 65535 - base_port

choose_p2p_port(device_id) ==
    base_port + (as_u16(fold_hash(U32(0, 0), device_id)) % port_range)

\* Device IDs as their ASCII bytes: the IDs of the unit test and of the
\* registration trace, and every short string over three digits.
SampleIds ==
    {<<49, 50, 51, 52, 53, 54, 55, 56, 57>>, <<57, 56, 55, 54, 53, 52, 51, 50, 49>>,
     <<49, 49, 49, 50, 50, 50, 51, 51, 51>>, <<48, 48, 48, 48, 48, 48, 48, 48, 48>>}
    \cup UNION {[1 .. n -> {48, 49, 57}] : n \in 0 .. 4}

UnitChoosePort ==
    /\ unit.fn = "none"
    /\ \E id \in SampleIds :
         unit' = [fn |-> "choose_p2p_port", in |-> id,
                  port1 |-> choose_p2p_port(id), port2 |-> choose_p2p_port(id)]
    /\ UNCHANGED <<sessionVars, app, cmd>>

\* ---------------------------------------------------------------- STUN binding responses

STUN_BINDING_RESPONSE == 257
STUN_ATTR_MAPPED_ADDRESS == 1
STUN_ATTR_XOR_MAPPED_ADDRESS == 32

\* STUN_MAGIC_COOKIE = 0x2112A442, as its four big-endian bytes.
STUN_MAGIC_COOKIE == <<33, 18, 164, 66>>

RECURSIVE bitxor(_, _)
\* The ^ operator on unsigned integers.
bitxor(a, b) ==
    IF a = 0 THEN b
    ELSE IF b = 0 THEN a
    ELSE ((a + b) % 2) + 2 * bitxor(a \div 2, b \div 2)

\* data[from .. to) of a byte slice (0-based, as in the code).
slice(data, from, to) == SubSeq(data, from + 1, to)

\* parse_mapped_address
parse_mapped_address(data) ==
    IF Len(data) < 8 THEN Err("MAPPED-ADDRESS too short")
    ELSE LET family == data[2]
             port == from_be_bytes(data[3], data[4])
         IN  IF family = 1 THEN Ok(SocketAddr(4, slice(data, 4, 8), port))
             ELSE IF family = 2
             THEN IF Len(data) < 20 THEN Err("MAPPED-ADDRESS IPv6 too short")
                  ELSE Ok(SocketAddr(6, slice(data, 4, 20), port))
             ELSE Err("Unknown address family")

\* The address read without undoing the XOR.
parse_xor_mapped_address_NoXor(data) == parse_mapped_address(data)

\* parse_xor_mapped_address. The u32 XOR with the cookie is taken on the four
\* big-endian bytes, which is the same function.
parse_xor_mapped_address(data) ==
    IF Len(data) < 8 THEN Err("XOR-MAPPED-ADDRESS too short")
    ELSE LET family == data[2]
             xor_port == from_be_bytes(data[3], data[4])
             port == bitxor(xor_port,
                            from_be_bytes(STUN_MAGIC_COOKIE[1], STUN_MAGIC_COOKIE[2]))
         IN  IF family = 1
             THEN Ok(SocketAddr(4, [i \in 1 .. 4 |->
                                      bitxor(data[4 + i], STUN_MAGIC_COOKIE[i])], port))
             ELSE IF family = 2
             THEN IF Len(data) < 20 THEN Err("XOR-MAPPED-ADDRESS IPv6 too short")
                  ELSE Err("IPv6 XOR-MAPPED-ADDRESS not implemented")
             ELSE Err("Unknown address family")

RECURSIVE parse_attributes(_, _, _)
\* The attribute loop of parse_binding_response, from byte offset pos.
parse_attributes(data, msg_len, pos) ==
    IF pos + 4 > 20 + msg_len THEN Err("No mapped address in STUN response")
    ELSE LET attr_type == from_be_bytes(data[pos + 1], data[pos + 2])
             attr_len == from_be_bytes(data[pos + 3], data[pos + 4])
             at == pos + 4
         IN  IF at + attr_len > Len(data)
             THEN Err("No mapped address in STUN response")
             ELSE IF attr_type = STUN_ATTR_XOR_MAPPED_ADDRESS
             THEN parse_xor_mapped_address(slice(data, at, at + attr_len))
             ELSE IF attr_type = STUN_ATTR_MAPPED_ADDRESS
             THEN parse_mapped_address(slice(data, at, at + attr_len))
             ELSE parse_attributes(data, msg_len, at + ((attr_len + 3) \div 4) * 4)

parse_binding_response(data) ==
    IF Len(data) < 20 THEN Err("STUN response too short")
    ELSE IF from_be_bytes(data[1], data[2]) # STUN_BINDING_RESPONSE
    THEN Err("Not a binding response")
    ELSE LET msg_len == from_be_bytes(data[3], data[4])
         IN  IF Len(data) < 20 + msg_len THEN Err("STUN response truncated")
             ELSE parse_attributes(data, msg_len, 20)

\* Attributes a STUN server may send: type, value bytes, and the address the
\* value stands for where this parser can decode it (None where it cannot).
StunAttr(type, value, addr) == [type |-> type, value |-> value, addr |-> addr]

SampleStunAttrs ==
    {StunAttr(32, <<0, 1, 57, 82, 225, 186, 66, 86>>,
              Some(SocketAddr(4, <<192, 168, 230, 20>>, 6208))),
     StunAttr(32, <<0, 2, 57, 82, 1, 2, 3, 4, 5, 6, 7, 8, 9, 10, 11, 12, 13, 14, 15, 16>>,
              None),
     StunAttr(32, <<0, 1, 57, 82>>, None),
     StunAttr(1, <<0, 1, 31, 144, 203, 0, 113, 5>>,
              Some(SocketAddr(4, <<203, 0, 113, 5>>, 8080))),
     StunAttr(1, <<0, 2, 31, 144, 32, 1, 13, 184, 0, 0, 0, 0, 0, 1, 4, 0, 0, 0, 0, 7>>,
              Some(SocketAddr(6, <<32, 1, 13, 184, 0, 0, 0, 0, 0, 1, 4, 0, 0, 0, 0, 7>>,
                              8080))),
     StunAttr(32802, <<115, 116, 117>>, None)}

RECURSIVE stun_attr_bytes(_)
\* The attributes on the wire: type, length, value, zero padding to 4 bytes.
stun_attr_bytes(attrs) ==
    IF attrs = <<>> THEN <<>>
    ELSE LET a == Head(attrs)
             pad == (4 - (Len(a.value) % 4)) % 4
         IN  to_be_bytes(a.type) \o to_be_bytes(Len(a.value)) \o a.value
                 \o [i \in 1 .. pad |-> 0] \o stun_attr_bytes(Tail(attrs))

\* A message with the 20-byte header: type, length, cookie, transaction id.
stun_message(msg_type, attrs) ==
    LET body == stun_attr_bytes(attrs)
    IN  to_be_bytes(msg_type) \o to_be_bytes(Len(body)) \o STUN_MAGIC_COOKIE
            \o [i \in 1 .. 12 |-> i] \o body

SampleStunAttrLists == UNION {[1 .. n -> SampleStunAttrs] : n \in 0 .. 3}

UnitParseBindingResponse ==
    /\ unit.fn = "none"
    /\ \E attrs \in SampleStunAttrLists, msg_type \in {257, 273}, cut \in {0, 1, 30} :
         LET full == stun_message(msg_type, attrs)
             data == SubSeq(full, 1, IF cut >= Len(full) THEN 0 ELSE Len(full) - cut)
         IN  unit' = [fn |-> "parse_binding_response",
                      in |-> [attrs |-> attrs, whole |-> msg_type = 257 /\ cut = 0,
                              data |-> data],
                      out |-> parse_binding_response(data)]
    /\ UNCHANGED <<sessionVars, app, cmd>>

\* ---------------------------------------------------------------- video frames

\* u16::to_le_bytes and u16::from_le_bytes
to_le_bytes_BigEndian(p) == <<p \div 256, p % 256>>
to_le_bytes(p) == <<p % 256, p \div 256>>
from_le_bytes(lo, hi) == hi * 256 + lo

\* `width as u16` on a u32
u32_as_u16(n) == n % 65536

\* A payload made of explicit leading bytes followed by a run of data bytes.
Payload(head, data) == [head |-> head, data |-> data]
PayloadLen(p) == Len(p.head) + p.data.len

\* The first n bytes of a payload (n at most its length).
PayloadTake(p, n) ==
    IF n <= Len(p.head) THEN Payload(SubSeq(p.head, 1, n), Run(0, 0))
    ELSE Payload(p.head, Run(n - Len(p.head), p.data.fill))

\* payload[13..]
PayloadFrom13(p) == p.data

\* The payload send_video_frame builds from capture()'s (width, height, data).
video_payload(width, height, data) ==
    Payload(<<1>> \o to_le_bytes(u32_as_u16(width)) \o to_le_bytes(u32_as_u16(height))
                \o [i \in 1 .. 8 |-> 0],
            data)

\* HostSession::write_frame with no Secure Channel: header, then the payload.
plain_write_frame(channel, payload) ==
    [hdr |-> frame_header(channel, PayloadLen(payload)), body |-> payload]

\* ClientSession::read_frame with no Secure Channel on the bytes of one
\* written frame: the header's channel and length, then that many bytes.
plain_read_frame(wire) ==
    LET channel == Channel_try_from(wire.hdr[1]) IN
    IF ~channel.ok THEN channel
    ELSE Ok([channel |-> channel.val,
             payload |-> PayloadTake(wire.body, declared_len(wire.hdr))])

\* request_and_receive_frame from the frame it read.
request_and_receive_frame(frame) ==
    IF frame.channel # "Video" THEN Ok(None)
    ELSE IF PayloadLen(frame.payload) < 13 THEN Ok(None)
    ELSE Ok(Some(<<from_le_bytes(frame.payload.head[2], frame.payload.head[3]),
                   from_le_bytes(frame.payload.head[4], frame.payload.head[5]),
                   PayloadFrom13(frame.payload)>>))

\* Screen sizes and JPEG lengths, up to the ends of the u16 and of the 3-byte
\* length field.
SampleSizes == {1, 255, 256, 1920, 1080, 65535, 65536, 70000}
SampleJpegLens == {0, 1, 1000, 70000, 16777202, 16777203, 16777300}

\* One frame request served: capture, send_video_frame, and the client
\* reading the answer.
UnitVideoFrame ==
    /\ unit.fn = "none"
    /\ \E w \in SampleSizes, h \in SampleSizes, n \in SampleJpegLens :
         LET payload == video_payload(w, h, Run(n, 216))
             wire == plain_write_frame("Video", payload)
             frame == plain_read_frame(wire)
         IN  unit' = [fn |-> "send_video_frame",
                      in |-> [width |-> w, height |-> h, data |-> Run(n, 216)],
                      payload |-> payload, wire |-> wire,
                      out |-> IF frame.ok THEN request_and_receive_frame(frame.val)
                              ELSE frame]
    /\ UNCHANGED <<sessionVars, app, cmd>>

\* The client reading some other frame as the answer to its request.
UnitReceiveFrame ==
    /\ unit.fn = "none"
    /\ \E c \in Channel, k \in 0 .. 13, n \in {0, 5} :
         LET frame == [channel |-> c,
                       payload |-> Payload([i \in 1 .. k |-> i],
                                           Run(IF k = 13 THEN n ELSE 0, 216))]
         IN  unit' = [fn |-> "request_and_receive_frame", in |-> frame,
                      out |-> request_and_receive_frame(frame)]
    /\ UNCHANGED <<sessionVars, app, cmd>>

\* ---------------------------------------------------------------- input events

\* protocol::input
MOUSE_MOVE == 1
MOUSE_BUTTON == 2
MOUSE_SCROLL == 3
KEY_DOWN == 4
KEY_UP == 5

\* i32::to_le_bytes: the two's complement bytes, lowest first.
i32_to_le_bytes(x) ==
    <<x % 256, (x \div 256) % 256, (x \div 65536) % 256, (x \div 16777216) % 256>>

\* The four bytes read highest first.
i32_from_le_bytes_BigEndian(b) ==
    (IF b[1] >= 128 THEN b[1] - 256 ELSE b[1]) * 16777216
        + b[2] * 65536 + b[3] * 256 + b[4]

\* i32::from_le_bytes
i32_from_le_bytes(b) ==
    (IF b[4] >= 128 THEN b[4] - 256 ELSE b[4]) * 16777216
        + b[3] * 65536 + b[2] * 256 + b[1]

\* The payload ClientSession::send_mouse builds; None for an event type it
\* does not know (it returns without writing).
send_mouse(x, y, event_type, button) ==
    IF event_type = "move"
    THEN Some(<<MOUSE_MOVE>> \o i32_to_le_bytes(x) \o i32_to_le_bytes(y))
    ELSE IF event_type \in {"down", "up"}
    THEN Some(<<MOUSE_BUTTON, IF button = None THEN 0 ELSE button[1],
                IF event_type = "down" THEN 1 ELSE 0>>
                  \o i32_to_le_bytes(x) \o i32_to_le_bytes(y))
    ELSE IF event_type = "scroll"
    THEN Some(<<MOUSE_SCROLL>> \o i32_to_le_bytes(x) \o i32_to_le_bytes(y))
    ELSE None

\* The payload ClientSession::send_key builds.
send_key(key_code, pressed) ==
    <<IF pressed THEN KEY_DOWN ELSE KEY_UP>> \o to_le_bytes(key_code) \o <<0>>

\* A call on the host's InputInjector.
Inject(op, args) == [op |-> op, args |-> args]
NoInject == Inject("none", <<>>)

\* The injector call HostSession::handle_input makes for an Input payload.
input_call(payload) ==
    IF payload = <<>> THEN NoInject
    ELSE IF payload[1] = MOUSE_MOVE
    THEN IF Len(payload) >= 9
         THEN Inject("move_mouse", <<i32_from_le_bytes(slice(payload, 1, 5)),
                                     i32_from_le_bytes(slice(payload, 5, 9))>>)
         ELSE NoInject
    ELSE IF payload[1] = MOUSE_BUTTON
    THEN IF Len(payload) >= 11
         THEN Inject("mouse_button", <<payload[2], payload[3] # 0,
                                       i32_from_le_bytes(slice(payload, 3, 7)),
                                       i32_from_le_bytes(slice(payload, 7, 11))>>)
         ELSE NoInject
    ELSE IF payload[1] = MOUSE_SCROLL
    THEN IF Len(payload) >= 9
         THEN Inject("mouse_scroll", <<i32_from_le_bytes(slice(payload, 1, 5)),
                                       i32_from_le_bytes(slice(payload, 5, 9))>>)
         ELSE NoInject
    ELSE IF payload[1] \in {KEY_DOWN, KEY_UP}
    THEN IF Len(payload) >= 4
         THEN Inject("key_event", <<from_le_bytes(payload[2], payload[3]),
                                    payload[1] = KEY_DOWN>>)
         ELSE NoInject
    ELSE NoInject

\* An Input payload written by the client and read by the host: the frames
\* written, and the injector call of handle_input for each.
input_delivery(payload) ==
    IF payload = None THEN [frames |-> <<>>, calls |-> <<>>]
    ELSE LET wire == plain_write_frame("Input", Payload(payload[1], Run(0, 0)))
             frame == plain_read_frame(wire).val
         IN  [frames |-> <<wire>>,
              calls |-> IF frame.channel = "Input"
                        THEN <<input_call(frame.payload.head)>> ELSE <<>>]

SampleCoords == {0, 1, -1, 300, -300, 70000, 2147483647, -2147483647 - 1}
SampleKeys == {0, 65, 256, 4660, 65535}

UnitSendMouse ==
    /\ unit.fn = "none"
    /\ \E x \in SampleCoords, y \in SampleCoords,
          event_type \in {"move", "down", "up", "scroll", "wheel"},
          button \in {None, Some(0), Some(2)} :
         LET payload == send_mouse(x, y, event_type, button) IN
         unit' = [fn |-> "send_mouse",
                  in |-> [x |-> x, y |-> y, event_type |-> event_type, button |-> button],
                  payload |-> payload, out |-> input_delivery(payload)]
    /\ UNCHANGED <<sessionVars, app, cmd>>

UnitSendKey ==
    /\ unit.fn = "none"
    /\ \E key_code \in SampleKeys, pressed \in BOOLEAN :
         LET payload == Some(send_key(key_code, pressed)) IN
         unit' = [fn |-> "send_key", in |-> [key_code |-> key_code, pressed |-> pressed],
                  payload |-> payload, out |-> input_delivery(payload)]
    /\ UNCHANGED <<sessionVars, app, cmd>>

\* ---------------------------------------------------------------- privacy toggles

\* First payload bytes of a Privacy frame: the four toggles, STATUS_ACK, a
\* byte outside protocol::privacy, and the empty payload.
SamplePrivacyMsgs ==
    {"BLACK_SCREEN_ON", "BLACK_SCREEN_OFF", "INPUT_BLOCK_ON", "INPUT_BLOCK_OFF",
     "STATUS_ACK", "UNKNOWN", "empty"}

\* handle_privacy on one frame, in each privacy state of a connected host.
UnitHandlePrivacy ==
    /\ unit.fn = "none"
    /\ \E msg \in SamplePrivacyMsgs, black \in BOOLEAN, blocked \in BOOLEAN,
          out \in {<<>>, <<Wire(Frm("Video", "KEYFRAME", "jpeg"), FALSE, "relay", "Relay")>>} :
         LET h == [NewHost EXCEPT !.black_screen = black, !.input_blocked = blocked]
             r == handle_privacy(h, out, Frm("Privacy", msg, "none"))
         IN  unit' = [fn |-> "handle_privacy", in |-> [h |-> h, msg |-> msg, out |-> out],
                      out |-> r]
    /\ UNCHANGED <<sessionVars, app, cmd>>

\* ---------------------------------------------------------------- P2P negotiation of the client

\* protocol::control::P2P_ANSWER
P2P_ANSWER == 17

\* try_connect(addr): a TCP dial within P2P_CONNECT_TIMEOUT; reach is the set
\* of addresses at which a listener accepts in time.
try_connect(addr, reach) == addr \in reach

\* attempt_p2p_connection: the addresses dialed, in order, and whether a dial
\* got through.
attempt_p2p_connection(remote_info, local_enabled, reach) ==
    IF ~remote_info.p2p_enabled /\ ~local_enabled THEN [dialed |-> <<>>, ok |-> FALSE]
    ELSE IF remote_info.local_addr # None /\ try_connect(remote_info.local_addr[1], reach)
         THEN [dialed |-> <<remote_info.local_addr[1]>>, ok |-> TRUE]
    ELSE LET first == IF remote_info.local_addr # None
                      THEN <<remote_info.local_addr[1]>> ELSE <<>>
         IN  IF remote_info.public_addr # None
             THEN [dialed |-> Append(first, remote_info.public_addr[1]),
                   ok |-> try_connect(remote_info.public_addr[1], reach)]
             ELSE [dialed |-> first, ok |-> FALSE]

\* What connect_with_p2p writes on and reads from the relay socket.
Written(what) == [op |-> "write", what |-> what]
WasRead(what) == [op |-> "read", what |-> what]

\* connect_with_p2p once the relay has accepted the registration: answer is
\* the outcome of the read that follows the offer (a frame, or the error of
\* read_frame_from_stream).  wire lists the writes and reads on the relay
\* socket up to the return of the session.
connect_with_p2p(p2p_enabled, answer, reach) ==
    LET registered == <<Written("registration"), WasRead("reply")>>
        is_answer == /\ answer.ok
                     /\ answer.val.channel = "Control"
                     /\ answer.val.payload # <<>>
                     /\ answer.val.payload[1] = P2P_ANSWER
        offered == registered \o
                   <<Written("P2P_OFFER"),
                     WasRead(IF is_answer THEN "P2P_ANSWER"
                             ELSE IF answer.ok THEN "frame" ELSE "error")>>
        remote_info == P2PInfo_decode(Tail(answer.val.payload))
        attempt == attempt_p2p_connection(remote_info.val, TRUE, reach)
    IN  IF ~p2p_enabled
        THEN [wire |-> registered, dialed |-> <<>>, connection_type |-> "Relay"]
        ELSE IF ~is_answer
        THEN [wire |-> offered, dialed |-> <<>>, connection_type |-> "Relay"]
        ELSE IF ~remote_info.ok
        THEN [wire |-> offered, dialed |-> <<>>, connection_type |-> "Relay"]
        ELSE IF attempt.ok
        THEN [wire |-> Append(offered, Written("P2P_READY")), dialed |-> attempt.dialed,
              connection_type |-> "P2P"]
        ELSE [wire |-> Append(offered, Written("P2P_FAILED")), dialed |-> attempt.dialed,
              connection_type |-> "Relay"]

\* The addresses among those the host advertises that accept a dial.
Reach(x, localUp, publicUp) ==
    (IF localUp /\ x.local_addr # None THEN {x.local_addr[1]} ELSE {})
        \cup (IF publicUp /\ x.public_addr # None THEN {x.public_addr[1]} ELSE {})

\* A connect against a host that answers the offer with its P2PInfo x; the
\* read of the answer succeeds or fails (readOk).
UnitNegotiate ==
    /\ unit.fn = "none"
    /\ \E x \in P2PInfos, localUp \in BOOLEAN, publicUp \in BOOLEAN, p2p \in BOOLEAN,
          readOk \in BOOLEAN :
         LET answer == IF readOk
                       THEN Ok([channel |-> "Control",
                                payload |-> <<P2P_ANSWER>> \o P2PInfo_encode(x)])
                       ELSE Err("read")
         IN  unit' = [fn |-> "connect_with_p2p",
                      in |-> [p2p_enabled |-> p2p, host |-> x, readOk |-> readOk,
                              localUp |-> localUp, publicUp |-> publicUp],
                      out |-> connect_with_p2p(p2p, answer, Reach(x, localUp, publicUp))]
    /\ UNCHANGED <<sessionVars, app, cmd>>

\* ---------------------------------------------------------------- relay frame during the P2P wait

\* protocol::control
P2P_READY == 18
P2P_FAILED == 19

\* The relay arm of the select in the P2P_OFFER handler, on the result of
\* read_frame: what the block does with it.  payload[0] of an empty payload
\* is an index out of range, which panics.
select_relay_frame(relay_frame) ==
    IF ~relay_frame.ok THEN "dropped"
    ELSE LET f == relay_frame.val IN
         IF f.channel = "Control" /\ f.payload # <<>> /\ f.payload[1] = P2P_FAILED
         THEN "p2p_failed"
         ELSE IF f.payload = <<>> THEN "panic"
         ELSE IF f.payload[1] = P2P_READY THEN "p2p_ready"
         ELSE "ignored"

\* Payloads of a relay frame: none, the two messages of the negotiation, and
\* session traffic.
SampleRelayPayloads == {<<>>, <<P2P_FAILED>>, <<P2P_READY>>, <<3>>, <<5, 0, 0>>}

UnitSelectRelayFrame ==
    /\ unit.fn = "none"
    /\ \E r \in {Err("read")} \cup
                {Ok([channel |-> c, payload |-> p]) : c \in Channel, p \in SampleRelayPayloads} :
         unit' = [fn |-> "select_relay_frame", in |-> r, out |-> select_relay_frame(r)]
    /\ UNCHANGED <<sessionVars, app, cmd>>

\* ---------------------------------------------------------------- screen capture

\* Longest run of captures, and longest run with failing acquisitions.
MaxCaptures == 12
MaxFaultyCaptures == 3

\* ScreenCapture::init: nothing cached.
NewCapture == [last_frame |-> None, unchanged_count |-> 0, needs_recreate |-> FALSE]

\* The JPEG encode_jpeg produces for the screen, and Vec::new().
Jpeg == Run(1000, 216)
EmptyVec == Run(0, 0)

\* capture_internal: acquire is what AcquireNextFrame reports ("frame",
\* "timeout" for DXGI_ERROR_WAIT_TIMEOUT, "access_lost", "error"),
\* recreate_ok the outcome of recreate_duplication when it is needed.
capture_internal(s, acquire, recreate_ok) ==
    IF s.needs_recreate /\ ~recreate_ok
    THEN [s |-> s,
          out |-> IF s.last_frame # None THEN Ok(s.last_frame[1]) ELSE Err("recreate")]
    ELSE
    LET s1 == [s EXCEPT !.needs_recreate = FALSE] IN
    CASE acquire = "timeout" ->
           IF s1.last_frame # None
           THEN LET s2 == [s1 EXCEPT !.unchanged_count = @ + 1] IN
                [s |-> s2,
                 out |-> Ok(IF s2.unchanged_count <= 10 THEN s2.last_frame[1] ELSE EmptyVec)]
           ELSE [s |-> s1, out |-> Ok(EmptyVec)]
      [] acquire = "access_lost" ->
           [s |-> [s1 EXCEPT !.needs_recreate = TRUE],
            out |-> IF s1.last_frame # None THEN Ok(s1.last_frame[1]) ELSE Err("access lost")]
      [] acquire = "frame" ->
           [s |-> [s1 EXCEPT !.unchanged_count = 0, !.last_frame = Some(Jpeg)],
            out |-> Ok(Jpeg)]
      [] OTHER -> [s |-> s1, out |-> Err("acquire")]

\* The capture state after a run of captures.
RECURSIVE capture_run(_, _, _)
capture_run(acquires, recreate_ok, s) ==
    IF acquires = <<>> THEN s
    ELSE capture_run(Tail(acquires), recreate_ok,
                     capture_internal(s, Head(acquires), recreate_ok).s)

\* send_video_frame for the last of a run of frame requests: the payload of
\* the Video frame written, or the error of capture.
send_video_frame_after(acquires, recreate_ok, width, height) ==
    LET n == Len(acquires)
        c == capture_internal(capture_run(SubSeq(acquires, 1, n - 1), recreate_ok, NewCapture),
                              acquires[n], recreate_ok)
    IN  IF c.out.ok THEN Ok(video_payload(width, height, c.out.val)) ELSE c.out

\* Frame requests while the screen changes or stays unchanged.
UnitCapture ==
    /\ unit.fn = "none"
    /\ \E n \in 1 .. MaxCaptures : \E acquires \in [1 .. n -> {"frame", "timeout"}] :
         unit' = [fn |-> "capture", in |-> acquires, recreate_ok |-> TRUE,
                  out |-> send_video_frame_after(acquires, TRUE, 1920, 1080)]
    /\ UNCHANGED <<sessionVars, app, cmd>>

\* Frame requests with failing acquisitions among them.
UnitCaptureFaulty ==
    /\ unit.fn = "none"
    /\ \E n \in 1 .. MaxFaultyCaptures, recreate_ok \in BOOLEAN :
       \E acquires \in [1 .. n -> {"frame", "timeout", "access_lost", "error"}] :
         unit' = [fn |-> "capture", in |-> acquires, recreate_ok |-> recreate_ok,
                  out |-> send_video_frame_after(acquires, recreate_ok, 1920, 1080)]
    /\ UNCHANGED <<sessionVars, app, cmd>>

\* ---------------------------------------------------------------- the P2P setting

\* Longest sequence of configuration calls.
MaxConfigCalls == 3

\* ConnectionConfig::default: both copies of the setting are true.
DefaultConfig == [p2p_enabled |-> TRUE, settings |-> [p2p_enabled |-> TRUE]]

\* ConnectionConfig::set_p2p_enabled (the save that follows changes no field)
set_p2p_enabled(config, enabled) == [config EXCEPT !.p2p_enabled = enabled]

\* ConnectionConfig::update_setting with a SettingValue::Bool
update_setting(config, key, v) ==
    IF key = "p2p_enabled"
    THEN [config EXCEPT !.settings.p2p_enabled = v, !.p2p_enabled = v]
    ELSE config

ConfigCalls ==
    [fn : {"set_p2p_enabled"}, key : {"p2p_enabled"}, v : BOOLEAN]
        \cup [fn : {"update_setting"}, key : {"p2p_enabled", "minimize_to_tray"}, v : BOOLEAN]

RECURSIVE config_run(_, _)
config_run(calls, config) ==
    IF calls = <<>> THEN config
    ELSE config_run(Tail(calls),
                    IF Head(calls).fn = "set_p2p_enabled"
                    THEN set_p2p_enabled(config, Head(calls).v)
                    ELSE update_setting(config, Head(calls).key, Head(calls).v))

UnitConfig ==
    /\ unit.fn = "none"
    /\ \E n \in 1 .. MaxConfigCalls : \E calls \in [1 .. n -> ConfigCalls] :
         unit' = [fn |-> "config", in |-> calls, out |-> config_run(calls, DefaultConfig)]
    /\ UNCHANGED <<sessionVars, app, cmd>>

\* ---------------------------------------------------------------- quality of service

INIT_FPS == 15
MIN_FPS == 5
MAX_FPS == 60
RTT_WINDOW_SIZE == 60

\* Longest run of record_rtt calls at one RTT.
MaxRun == 10

\* RttTracker::new and QosManager::new (target quality Balanced).  min_rtt
\* None stands for u32::MAX, which every sample here is below.
NewQos ==
    [samples |-> <<>>, smoothed_rtt |-> 50, min_rtt |-> None, current_fps |-> INIT_FPS]

\* QualityLevel::Balanced.min_fps()
min_fps == 10

MinOf(a, b) == IF a <= b THEN a ELSE b
MaxOf(a, b) == IF a >= b THEN a ELSE b

\* RttTracker::add_sample
add_sample(q, rtt_ms) ==
    LET kept == IF Len(q.samples) >= RTT_WINDOW_SIZE THEN Tail(q.samples) ELSE q.samples
        samples == Append(kept, rtt_ms)
        min_rtt == IF q.min_rtt = None \/ rtt_ms < q.min_rtt[1] THEN rtt_ms ELSE q.min_rtt[1]
        window_min == CHOOSE m \in {samples[i] : i \in DOMAIN samples} :
                          \A i \in DOMAIN samples : m <= samples[i]
    IN  [q EXCEPT !.samples = samples, !.min_rtt = Some(min_rtt),
                  !.smoothed_rtt = (min_rtt + window_min) \div 2]

\* QosManager::adjust_parameters, the target FPS
adjust_parameters(q) ==
    LET rtt == q.smoothed_rtt
        fps == q.current_fps
    IN  [q EXCEPT !.current_fps =
            IF rtt < 50 THEN MinOf(fps + 5, MAX_FPS)
            ELSE IF rtt < 100 THEN MinOf(fps + 2, MAX_FPS)
            ELSE IF rtt < 150 THEN MaxOf(fps, min_fps)
            ELSE IF rtt < 200 THEN MaxOf(MaxOf(fps - 2, 0), min_fps)
            ELSE IF rtt < 300 THEN MaxOf(MaxOf(fps - 5, 0), MIN_FPS)
            ELSE MIN_FPS]

\* QosManager::record_rtt; elapsed tells whether more than 500 ms have passed
\* since the last adjustment (or since new).
record_rtt(q, rtt_ms, elapsed) ==
    IF elapsed THEN adjust_parameters(add_sample(q, rtt_ms)) ELSE add_sample(q, rtt_ms)

\* n calls of record_rtt with the same RTT.
RECURSIVE record_run(_, _, _, _)
record_run(q, rtt_ms, n, elapsed) ==
    IF n = 0 THEN q ELSE record_run(record_rtt(q, rtt_ms, elapsed), rtt_ms, n - 1, elapsed)

\* A run at a low RTT and then a run at a high RTT on a new manager, the calls
\* more than 500 ms apart (elapsed) or in quick succession.
UnitQos ==
    /\ unit.fn = "none"
    /\ \E a \in 1 .. MaxRun, b \in 1 .. MaxRun, low \in {0, 30, 49}, high \in {300, 1000},
          elapsed \in BOOLEAN :
         LET q1 == record_run(NewQos, low, a, elapsed)
             q2 == record_run(q1, high, b, elapsed)
         IN  unit' = [fn |-> "qos",
                      in |-> [low |-> low, a |-> a, high |-> high, b |-> b,
                              elapsed |-> elapsed],
                      after_low |-> q1.current_fps, after_high |-> q2.current_fps]
    /\ UNCHANGED <<sessionVars, app, cmd>>

\* ---------------------------------------------------------------- client calls and their replies

\* Longest sequence of client calls in one session.
MaxCalls == 3

ClientCalls == {"set_black_screen", "set_input_block", "request_and_receive_frame"}

\* The frame each of these calls writes.
call_frame(call) ==
    IF call = "request_and_receive_frame" THEN ClientOps["request_frame"] ELSE ClientOps[call]

\* A sequence of calls on one session against a host that serves every frame
\* in order: out is all the host has written back, rd how many of these frames
\* the client has read.  set_black_screen and set_input_block write and
\* return; request_and_receive_frame writes, then reads the next unread frame
\* and returns None unless it is a Video frame.  Each result records the
\* position of the reply to its own request (own) and the frame returned.
RECURSIVE client_calls(_, _, _, _, _)
client_calls(calls, h, out, rd, results) ==
    IF calls = <<>> THEN results
    ELSE LET r == dispatch(h, out, call_frame(Head(calls)), TRUE) IN
         IF Head(calls) = "request_and_receive_frame"
         THEN LET frame == r.out[rd + 1] IN
              client_calls(Tail(calls), r.h, r.out, rd + 1,
                           Append(results,
                                  [own |-> Len(r.out),
                                   ret |-> IF frame.ch # "Video" THEN None
                                           ELSE Some(rd + 1)]))
         ELSE client_calls(Tail(calls), r.h, r.out, rd, results)

UnitClientCalls ==
    /\ unit.fn = "none"
    /\ \E n \in 1 .. MaxCalls : \E calls \in [1 .. n -> ClientCalls] :
         unit' = [fn |-> "client_calls", in |-> calls,
                  out |-> client_calls(calls, NewHost, <<>>, 0, <<>>)]
    /\ UNCHANGED <<sessionVars, app, cmd>>

\* ---------------------------------------------------------------- device ID and registration

\* a * 2 modulo m, and a * 256 modulo m as eight doublings (no intermediate
\* value reaches 2m).
double_mod(a, m) == (a * 2) % m
mul256_mod(a, m) ==
    double_mod(double_mod(double_mod(double_mod(
        double_mod(double_mod(double_mod(double_mod(a, m), m), m), m), m), m), m), m)

\* One more significant byte b in front of the value acc, modulo m.
push_byte_mod(acc, b, m) == (mul256_mod(acc, m) + b) % m

\* u64::from_le_bytes(bytes) % m for eight bytes, from the highest byte down.
u64_from_le_bytes_mod(bytes, m) ==
    push_byte_mod(push_byte_mod(push_byte_mod(push_byte_mod(
        push_byte_mod(push_byte_mod(push_byte_mod(push_byte_mod(
            0, bytes[8], m), bytes[7], m), bytes[6], m), bytes[5], m),
            bytes[4], m), bytes[3], m), bytes[2], m), bytes[1], m)

\* format!("{:9}", num): nine characters, padded with spaces.
format_09_SpacePadded(num) ==
    [i \in 1 .. 9 |-> IF i < 9 /\ num < 10 ^ (9 - i) THEN 32
                      ELSE 48 + ((num \div (10 ^ (9 - i))) % 10)]

\* format!("{:09}", num) as ASCII bytes, for num below 10^9.
format_09(num) == [i \in 1 .. 9 |-> 48 + ((num \div (10 ^ (9 - i))) % 10)]

\* Identity::device_id from the first eight bytes of the BLAKE3 hash of the
\* two public keys.
device_id(hash) ==
    LET num == u64_from_le_bytes_mod(hash, 1000000000)
        id == format_09(num)
    IN  slice(id, 0, 3) \o <<32>> \o slice(id, 3, 6) \o <<32>> \o slice(id, 6, 9)

\* str::replace(' ', "")
replace_spaces(str) == SelectSeq(str, LAMBDA b : b # 32)

\* Identity::device_id_raw
device_id_raw(hash) == replace_spaces(device_id(hash))

\* `len as u16` on a usize
usize_as_u16(n) == n % 65536

\* The bytes start_with_p2p writes to register the host.
host_registration(id) ==
    <<1>> \o to_be_bytes(usize_as_u16(Len(id))) \o id

\* The bytes connect_with_p2p writes to register the technician.
client_registration(my_id, remote_id) ==
    LET target_id == replace_spaces(remote_id) IN
    <<2>> \o to_be_bytes(usize_as_u16(Len(my_id))) \o my_id
          \o to_be_bytes(usize_as_u16(Len(target_id))) \o target_id

\* First eight hash bytes: those giving 123456789, 111222333, 0, 7, 999999999
\* and 10^9 as the u64, and two with the high bytes set.
SampleHashes ==
    {<<21, 205, 91, 7, 0, 0, 0, 0>>, <<61, 30, 161, 6, 0, 0, 0, 0>>,
     <<0, 0, 0, 0, 0, 0, 0, 0>>, <<7, 0, 0, 0, 0, 0, 0, 0>>,
     <<255, 201, 154, 59, 0, 0, 0, 0>>, <<0, 202, 154, 59, 0, 0, 0, 0>>,
     <<255, 255, 255, 255, 255, 255, 255, 255>>,
     <<239, 205, 171, 137, 103, 69, 35, 1>>}

\* Remote IDs as the technician types them: with and without the spaces.
SampleRemoteIds ==
    {<<49, 49, 49, 50, 50, 50, 51, 51, 51>>,
     <<49, 49, 49, 32, 50, 50, 50, 32, 51, 51, 51>>,
     <<57, 56, 55, 32, 54, 53, 52, 32, 51, 50, 49>>,
     <<48, 48, 48, 48, 48, 48, 48, 48, 55>>}

UnitDeviceId ==
    /\ unit.fn = "none"
    /\ \E hash \in SampleHashes :
         unit' = [fn |-> "device_id", in |-> hash,
                  num |-> u64_from_le_bytes_mod(hash, 1000000000),
                  out |-> device_id(hash), raw |-> device_id_raw(hash)]
    /\ UNCHANGED <<sessionVars, app, cmd>>

UnitRegistration ==
    /\ unit.fn = "none"
    /\ \E hash \in SampleHashes, remote_id \in SampleRemoteIds :
         unit' = [fn |-> "registration",
                  in |-> [id |-> device_id_raw(hash), remote_id |-> remote_id],
                  host |-> host_registration(device_id_raw(hash)),
                  client |-> client_registration(device_id_raw(hash), remote_id)]
    /\ UNCHANGED <<sessionVars, app, cmd>>

\* ---------------------------------------------------------------- client sessions of the app

Tasks == 1 .. NumTasks

\* lock is the task holding the client_sessions mutex, 0 when it is free;
\* issued lists every session id handed out so far.
NewApp ==
    [session_counter |-> 0, client_sessions |-> {}, active_session_id |-> None,
     lock |-> 0, issued |-> <<>>]

\* A task between commands. id is the session id a command works with, using
\* the session whose ClientSession method the task is inside of.
IdleCmd == [pc |-> "idle", id |-> None, using |-> None]

\* Mutant: the counter is read but not advanced.
fetch_add_NoIncrement(counter) == counter

\* AtomicU64::fetch_add(1, SeqCst): the new value of the counter (the counter
\* is far from 2^64 here).
fetch_add(counter) == counter + 1

\* format!("session_{}", counter)
session_id(counter) == <<"session_", counter>>

SessionIds == {session_id(n) : n \in 0 .. MaxConnects}

\* session_id.or_else(|| active_session_id.lock().clone())
target_id(sid) == IF sid # None THEN sid ELSE app.active_session_id

\* connect_to_remote is invoked: ClientSession::connect is awaited.
AppConnectCall(t) ==
    /\ cmd[t].pc = "idle"
    /\ Len(app.issued) < MaxConnects
    /\ cmd' = [cmd EXCEPT ![t].pc = "connecting"]
    /\ UNCHANGED <<sessionVars, unit, app>>

\* connect returned for some relay (ok), and the session id is drawn; or
\* every relay failed and the command returns the last error.
AppConnectReturn(t, ok) ==
    /\ cmd[t].pc = "connecting"
    /\ IF ok
       THEN /\ app' = [app EXCEPT
                         !.session_counter = fetch_add(@),
                         !.issued = Append(@, session_id(app.session_counter))]
            /\ cmd' = [cmd EXCEPT ![t].pc = "insert_wait",
                                   ![t].id = Some(session_id(app.session_counter))]
       ELSE /\ cmd' = [cmd EXCEPT ![t] = IdleCmd]
            /\ UNCHANGED app
    /\ UNCHANGED <<sessionVars, unit>>

\* state.client_sessions.lock().await.insert(session_id, entry)
AppInsert(t) ==
    /\ cmd[t].pc = "insert_wait"
    /\ app.lock = 0
    /\ app' = [app EXCEPT !.client_sessions = @ \cup {cmd[t].id[1]}]
    /\ cmd' = [cmd EXCEPT ![t].pc = "set_active"]
    /\ UNCHANGED <<sessionVars, unit>>

\* *state.active_session_id.lock() = Some(session_id), and the command returns.
AppSetActive(t) ==
    /\ cmd[t].pc = "set_active"
    /\ app' = [app EXCEPT !.active_session_id = cmd[t].id]
    /\ cmd' = [cmd EXCEPT ![t] = IdleCmd]
    /\ UNCHANGED <<sessionVars, unit>>

\* A session command (send_key, send_mouse, set_black_screen, set_input_block,
\* send_resolution, request_video_frame) is invoked with session_id sid: it
\* picks its target and queues on client_sessions.lock(); without a target it
\* returns at once.
AppOpCall(t, sid) ==
    /\ cmd[t].pc = "idle"
    /\ app.issued # <<>>
    /\ target_id(sid) # None
    /\ cmd' = [cmd EXCEPT ![t].pc = "op_wait", ![t].id = target_id(sid)]
    /\ UNCHANGED <<sessionVars, unit, app>>

\* The command gets the lock: with an entry for its target it enters the
\* ClientSession method, holding the lock; without one it returns.
AppOpLock(t) ==
    /\ cmd[t].pc = "op_wait"
    /\ app.lock = 0
    /\ IF cmd[t].id[1] \in app.client_sessions
       THEN /\ app' = [app EXCEPT !.lock = t]
            /\ cmd' = [cmd EXCEPT ![t].pc = "op_io", ![t].using = cmd[t].id]
       ELSE /\ cmd' = [cmd EXCEPT ![t] = IdleCmd]
            /\ UNCHANGED app
    /\ UNCHANGED <<sessionVars, unit>>

\* The ClientSession method returns (Ok or Err) and the guard is dropped.
AppOpReturn(t) ==
    /\ cmd[t].pc = "op_io"
    /\ app' = [app EXCEPT !.lock = 0]
    /\ cmd' = [cmd EXCEPT ![t] = IdleCmd]
    /\ UNCHANGED <<sessionVars, unit>>

\* disconnect_session is invoked with session_id sid.
AppDisconnectCall(t, sid) ==
    /\ cmd[t].pc = "idle"
    /\ app.issued # <<>>
    /\ target_id(sid) # None
    /\ cmd' = [cmd EXCEPT ![t].pc = "disc_wait", ![t].id = target_id(sid)]
    /\ UNCHANGED <<sessionVars, unit, app>>

\* disconnect_session gets the lock: the entry is removed and
\* ClientSession::disconnect is awaited on it, holding the lock.
AppDisconnectLock(t) ==
    /\ cmd[t].pc = "disc_wait"
    /\ app.lock = 0
    /\ IF cmd[t].id[1] \in app.client_sessions
       THEN /\ app' = [app EXCEPT !.lock = t, !.client_sessions = @ \ {cmd[t].id[1]}]
            /\ cmd' = [cmd EXCEPT ![t].pc = "disc_io", ![t].using = cmd[t].id]
       ELSE /\ cmd' = [cmd EXCEPT ![t] = IdleCmd]
            /\ UNCHANGED app
    /\ UNCHANGED <<sessionVars, unit>>

\* disconnect returned: on Err the command leaves through `?`; on Ok the
\* active id, if it was the target, becomes sessions.keys().next().
AppDisconnectReturn(t, ok) ==
    /\ cmd[t].pc = "disc_io"
    /\ \E next \in (IF app.client_sessions = {} THEN {None}
                      ELSE {Some(k) : k \in app.client_sessions}) :
         app' = [app EXCEPT
                   !.lock = 0,
                   !.active_session_id =
                       IF ok /\ @ = cmd[t].id THEN next ELSE @]
    /\ cmd' = [cmd EXCEPT ![t] = IdleCmd]
    /\ UNCHANGED <<sessionVars, unit>>

\* disconnect_all_sessions gets the lock and collects the keys: it removes the
\* first entry and awaits its disconnect, holding the lock; with no entry it
\* clears the active id and returns.
AppDisconnectAllLock(t) ==
    /\ cmd[t].pc = "idle"
    /\ app.issued # <<>>
    /\ app.lock = 0
    /\ IF app.client_sessions = {}
       THEN /\ app' = [app EXCEPT !.active_session_id = None]
            /\ UNCHANGED cmd
       ELSE \E k \in app.client_sessions :
              /\ app' = [app EXCEPT !.lock = t, !.client_sessions = @ \ {k}]
              /\ cmd' = [cmd EXCEPT ![t].pc = "all_io", ![t].using = Some(k)]
    /\ UNCHANGED <<sessionVars, unit>>

\* A disconnect of the loop returned (its result is dropped): the next entry
\* is removed and disconnected, or, after the last one, the active id is
\* cleared and the guard dropped.
AppDisconnectAllNext(t) ==
    /\ cmd[t].pc = "all_io"
    /\ IF app.client_sessions = {}
       THEN /\ app' = [app EXCEPT !.lock = 0, !.active_session_id = None]
            /\ cmd' = [cmd EXCEPT ![t] = IdleCmd]
       ELSE \E k \in app.client_sessions :
              /\ app' = [app EXCEPT !.client_sessions = @ \ {k}]
              /\ cmd' = [cmd EXCEPT ![t].using = Some(k)]
    /\ UNCHANGED <<sessionVars, unit>>

\* set_active_session(sid): under the client_sessions lock, the active id is
\* set if sid is a key; otherwise the command returns an error.
AppSetActiveSession(t, sid) ==
    /\ cmd[t].pc = "idle"
    /\ app.issued # <<>>
    /\ app.lock = 0
    /\ app' = [app EXCEPT !.active_session_id =
                              IF sid \in app.client_sessions THEN Some(sid) ELSE @]
    /\ UNCHANGED <<sessionVars, unit, cmd>>

\* ---------------------------------------------------------------- specification

Init ==
    /\ mode \in {"gui", "headless"}
    /\ supPc = "loop"
    /\ relayIdx = 1
    /\ host_lock = "free"
    /\ host_session = "Some"
    /\ host = NewHost
    /\ hostPc = "none"
    /\ accepted = FALSE
    /\ uiPc = "idle"
    /\ uiArg = FALSE
    /\ uiResult = "none"
    /\ clientPc = "idle"
    /\ client = NewClient
    /\ tcpQueued = FALSE
    /\ toHost = <<>>
    /\ toPeer = <<>>
    /\ sent = 0
    /\ obs = NewObs
    /\ unit = [fn |-> "none"]
    /\ app = NewApp
    /\ cmd = [t \in Tasks |-> IdleCmd]

Next ==
    \/ SupAcquire
    \/ SupPollWake
    \/ SupReconnectWake
    \/ \E ok \in BOOLEAN : SupDial(ok)
    \/ HeadlessIterate
    \/ HeadlessWake
    \/ HostReadError
    \/ HostRunOnce
    \/ ApprovalResolve
    \/ ApprovalSend
    \/ \E a \in BOOLEAN : UiRespondCall(a)
    \/ UiRespondRun
    \/ SelectAccept
    \/ SelectAcceptTimeout
    \/ SelectRelayRead
    \/ ClientConnect
    \/ ClientRecvAnswer
    \/ \E ok \in BOOLEAN : ClientDial(ok)
    \/ \E op \in DOMAIN ClientOps : ClientOp(op)
    \/ \E f \in RawFrames : PeerSendRaw(f)
    \/ RelayDrop

Spec == Init /\ [][Next]_vars

\* The codec and helper functions, each applied once to an input of its domain.
UnitInit == Init /\ mode = "gui"

UnitNext ==
    \/ UnitP2PInfo
    \/ UnitFrame
    \/ UnitFromBytes
    \/ UnitWriteFrame
    \/ UnitConnectReply
    \/ UnitP2PConfig
    \/ UnitLoadOrCreate
    \/ UnitRegenerate
    \/ UnitChoosePort
    \/ UnitParseBindingResponse
    \/ UnitVideoFrame
    \/ UnitReceiveFrame
    \/ UnitSendMouse
    \/ UnitSendKey
    \/ UnitHandlePrivacy
    \/ UnitDeviceId
    \/ UnitRegistration
    \/ UnitClientCalls
    \/ UnitNegotiate
    \/ UnitSelectRelayFrame
    \/ UnitCapture
    \/ UnitCaptureFaulty
    \/ UnitConfig
    \/ UnitQos

UnitSpec == UnitInit /\ [][UnitNext]_vars

\* The technician's app: frontend tasks running session commands concurrently.
AppInit == Init /\ mode = "gui"

AppNext ==
    \E t \in Tasks :
        \/ AppConnectCall(t)
        \/ \E ok \in BOOLEAN : AppConnectReturn(t, ok)
        \/ AppInsert(t)
        \/ AppSetActive(t)
        \/ \E sid \in {None} \cup {Some(k) : k \in SessionIds} : AppOpCall(t, sid)
        \/ AppOpLock(t)
        \/ AppOpReturn(t)
        \/ \E sid \in {None} \cup {Some(k) : k \in SessionIds} : AppDisconnectCall(t, sid)
        \/ AppDisconnectLock(t)
        \/ \E ok \in BOOLEAN : AppDisconnectReturn(t, ok)
        \/ AppDisconnectAllLock(t)
        \/ AppDisconnectAllNext(t)
        \/ \E sid \in SessionIds : AppSetActiveSession(t, sid)

AppSpec == AppInit /\ [][AppNext]_vars

\* ---------------------------------------------------------------- properties

P2PMessages == {"P2P_OFFER", "P2P_ANSWER", "P2P_READY", "P2P_FAILED"}

\* The client has sent P2P_READY or P2P_FAILED, the host has consumed it and
\* is between handlers, and the relay is up.
NegotiationFinished ==
    /\ host_session = "Some"
    /\ host.stream = "up"
    /\ client.dial # "none"
    /\ clientPc \in {"session", "closed"}
    /\ hostPc \in {"none", "read"}
    /\ \A i \in DOMAIN toHost : toHost[i].msg \notin P2PMessages

\* C1: the host acts on a Video, Input, Privacy or Clipboard frame only in a
\* session in which it has received SESSION_REQUEST and sent SESSION_ACCEPT.
C1_ActsOnlyAfterApproval ==
    obs.acted => (obs.gotRequest /\ obs.sentAccept)

\* C2: a respond_to_connection(accept) call made while the host waits on a
\* SESSION_REQUEST decides what the host sends: SESSION_ACCEPT for true,
\* SESSION_END for false.
C2_ReplyDecides ==
    (obs.uiArgInWait # "none" /\ obs.decision # "none")
        => obs.decision = (IF obs.uiArgInWait = "true" THEN "accept" ELSE "end")

\* C3: when the approval wait ends by the timeout, the pending slot is already
\* empty when the decision is written, the decision is SESSION_END [0x00]
\* (written whenever the relay stream is up), and no SESSION_ACCEPT is sent.
C3_TimeoutIsDecline ==
    [][(hostPc = "approval_send" /\ obs.timedOut)
         => /\ host.pending_connection = "None"
            /\ ~accepted
            /\ obs'.sentAccept = obs.sentAccept
            /\ (hostPc' # "approval_send" /\ host.stream = "up")
                 => /\ Len(toPeer') = Len(toPeer) + 1
                    /\ toPeer'[Len(toPeer')].ch = "Control"
                    /\ toPeer'[Len(toPeer')].msg = "SESSION_END"
                    /\ toPeer'[Len(toPeer')].arg = "00"]_vars

C3_Witness ==
    /\ obs.timedOut
    /\ obs.decision = "end"
    /\ host.pending_connection = "None"
    /\ toPeer # <<>>
    /\ toPeer[Len(toPeer)].msg = "SESSION_END"
    /\ toPeer[Len(toPeer)].arg = "00"

\* C4: once the P2P negotiation has finished, the host's connection_type()
\* equals the client's.
C4_SameConnectionType ==
    NegotiationFinished => host.connection_type = client.connection_type

\* C5: every session frame written by a side whose connection_type is P2P
\* travels on the P2P stream.
C5_P2PFramesOnP2PStream ==
    /\ \A i \in DOMAIN toHost :
         (toHost[i].ct = "P2P" /\ toHost[i].msg \notin P2PMessages) => toHost[i].via = "p2p"
    /\ \A i \in DOMAIN toPeer :
         (toPeer[i].ct = "P2P" /\ toPeer[i].msg \notin P2PMessages) => toPeer[i].via = "p2p"

C7_HandshakeCompletes ==
    obs.hs3Done => host.channel = "Some"

C11_PrivacyReleasedOnEnd ==
    [][/\ (host_session = "Some" /\ host_session' = "None")
            => (~host.black_screen /\ ~host.input_blocked)
       /\ (obs'.ended /\ ~obs.ended)
            => (~host'.black_screen /\ ~host'.input_blocked)]_vars

\* C12: after Control(SESSION_END) the session is stopped with privacy off, it
\* dispatches no later frame, and once the run_once that fails on it has
\* returned its transport is closed.
C12_SessionEndIsTerminal ==
    /\ obs.ended => (~host.running /\ ~host.black_screen /\ ~host.input_blocked)
    /\ ~obs.dispatchedAfterEnd
    /\ (obs.ended /\ supPc = "sleep5") => (host_session = "None" \/ host.stream # "up")

\* C13: a SESSION_REQUEST that was waiting at the host while an approval was
\* pending never raises an approval of its own.
C13_SecondRequestRejected ==
    ~obs.latePrompt

\* C14: P2PInfo::decode(P2PInfo::encode(x)) succeeds and returns x.
C14_P2PInfoRoundTrip ==
    unit.fn = "P2PInfo" => (unit.out.ok /\ unit.out.val = unit.in)

\* C15: from_bytes(to_bytes(f)) returns f's channel and payload; from_bytes
\* fails for a channel byte above 5 and for a declared length above 16 MiB.
C15_FrameRoundTrip ==
    /\ unit.fn = "Frame" => (unit.out.ok /\ unit.out.val = unit.in)
    /\ unit.fn = "from_bytes" =>
          /\ unit.in.hdr[1] > 5 => ~unit.out.ok
          /\ declared_len(unit.in.hdr) > MAX_FRAME_SIZE => ~unit.out.ok

\* C16: the length field written by to_bytes and by write_frame equals the
\* number of payload bytes that follow it.
C16_LengthFieldIsPayloadLength ==
    /\ unit.fn = "Frame" => declared_len(unit.wire.hdr) = unit.wire.body.len
    /\ (unit.fn = "write_frame" /\ unit.out.ok) =>
          /\ declared_len(unit.out.val.hdr) = unit.out.val.body.len
          /\ unit.out.val.body.len = unit.in.payload.len + (IF unit.sealed THEN 16 ELSE 0)

\* C17: connect goes on to a session only after a Control reply starting with
\* 0x01; a Control reply starting with 0xFF fails it with the message that
\* follows and nothing is sent afterwards.
C17_RegistrationReply ==
    unit.fn = "connect" =>
        /\ unit.out.ok =>
              (unit.in.channel = 0 /\ unit.in.payload # <<>> /\ unit.in.payload[1] = 1)
        /\ (unit.in.channel = 0 /\ unit.in.payload # <<>> /\ unit.in.payload[1] = 255) =>
              (~unit.out.ok /\ unit.out.err = Tail(unit.in.payload) /\ unit.out.sent = <<>>)

\* C18: every session id drawn is different from every other one drawn, a
\* connect never stores under an id that is in the map, and no two tasks are
\* inside a method of the same client session at the same time.
C18_UniqueIdsOneTaskPerSession ==
    /\ \A i, j \in DOMAIN app.issued : i # j => app.issued[i] # app.issued[j]
    /\ \A t \in Tasks :
         cmd[t].pc = "insert_wait" => cmd[t].id[1] \notin app.client_sessions
    /\ \A t1, t2 \in Tasks :
         (t1 # t2 /\ cmd[t1].using # None) => cmd[t1].using # cmd[t2].using

\* Two ids were drawn by connects that were in flight together, and one task
\* is inside a session method while another waits for the same session.
C18_Witness ==
    /\ Len(app.issued) >= 2
    /\ \E t1, t2 \in Tasks :
         /\ t1 # t2
         /\ cmd[t1].pc = "op_io"
         /\ cmd[t2].pc \in {"op_wait", "disc_wait"}
         /\ cmd[t2].id = cmd[t1].using

\* C19: with p2p_enabled = false in the configuration the client sends no
\* P2P_OFFER and the host is started without P2P and opens no listener.
C19_P2PDisabledIsRelayOnly ==
    (unit.fn = "p2p_config" /\ ~unit.in) =>
        /\ unit.clientSent = <<>>
        /\ ~unit.host_p2p_enabled
        /\ ~unit.hostListens

\* C20: load_or_create on an identity file whose length is not 64 returns a
\* newly generated identity and leaves a 64-byte file.
C20_WrongLengthRegenerates ==
    (unit.fn = "load_or_create" /\ unit.in # None /\ unit.in[1] # 64) =>
        /\ unit.out.ok
        /\ unit.out.val.identity = "generated"
        /\ unit.out.val.file = Some(64)

\* C21: Identity::regenerate replaces the identity file atomically: wherever
\* a run that started from a complete old identity stops, the file is the
\* complete old identity or the complete new one, never absent or partial.
C21_RegenerateIsAtomic ==
    (unit.fn = "regenerate" /\ unit.in.file = IdentityFile("old", 64))
        => unit.out.file \in {IdentityFile("old", 64), IdentityFile("new", 64)}

\* The value of a u32 modulo m, for 0 < m <= 16383.
U32Mod(h, m) == ((h.hi % m) * (65536 % m) + h.lo) % m

\* C22: choose_p2p_port(id) = 49152 + (h mod 16383), h the 32-bit wrapping
\* fold acc = acc*31 + b over the bytes of id, for every device ID.
C22_PortIsHashMod16383 ==
    unit.fn = "choose_p2p_port"
        => unit.port1 = 49152 + U32Mod(fold_hash(U32(0, 0), unit.in), 16383)

\* C23: choose_p2p_port gives the same port for the same ID, and the port lies
\* in [49152, 65535] for every ID.
C23_PortDeterministicInRange ==
    unit.fn = "choose_p2p_port"
        => /\ unit.port1 = unit.port2
           /\ unit.port1 >= 49152
           /\ unit.port1 <= 65535

C23_Witness ==
    /\ unit.fn = "choose_p2p_port"
    /\ unit.in = <<48, 48, 48, 48, 48, 48, 48, 48, 48>>
    /\ unit.port1 = 59443

\* The attributes of a response that carry an address this parser can decode.
UsableAttrs(attrs, type) ==
    SelectSeq(attrs, LAMBDA a : a.type = type /\ a.addr # None)

\* C24: the parser prefers XOR-MAPPED-ADDRESS and falls back to
\* MAPPED-ADDRESS: a binding response holding a usable XOR-MAPPED-ADDRESS
\* yields its decoded address whatever the order of the attributes, and the
\* MAPPED-ADDRESS value is returned only when no usable XOR-MAPPED-ADDRESS is
\* present.
C24_PrefersXorMapped ==
    (unit.fn = "parse_binding_response" /\ unit.in.whole)
        => LET xor == UsableAttrs(unit.in.attrs, 32)
               mapped == UsableAttrs(unit.in.attrs, 1)
           IN  /\ xor # <<>> => unit.out = Ok(xor[1].addr[1])
               /\ (xor = <<>> /\ mapped # <<>>) => unit.out = Ok(mapped[1].addr[1])

\* The response whose only attribute is the XOR-MAPPED-ADDRESS with family
\* 0x01, xor-port 0x3952 and xor-ip 0xE1BA4256.
TestVectorParsed ==
    /\ unit.fn = "parse_binding_response"
    /\ unit.in.whole
    /\ Len(unit.in.attrs) = 1
    /\ unit.in.attrs[1].type = 32
    /\ unit.in.attrs[1].value = <<0, 1, 57, 82, 225, 186, 66, 86>>

\* C25: for xor-port 0x3952 and xor-ip 0xE1BA4256 (family 0x01) the parser
\* returns port = xport XOR 0x2112 and ip = xip XOR 0x2112A442, which is
\* 192.168.230.20 port 6208.
C25_TestVectorDecodes ==
    TestVectorParsed => unit.out = Ok(SocketAddr(4, <<192, 168, 230, 20>>, 6208))

\* C25 as first stated: the same input gives 192.168.1.20 port 6464.
C25_AsStated ==
    TestVectorParsed => unit.out = Ok(SocketAddr(4, <<192, 168, 1, 20>>, 6464))

C25_Witness ==
    TestVectorParsed /\ unit.out.ok /\ unit.out.val.port = 6208

\* C26: for a capture result (w, h, jpeg) with w, h < 65536 the host's Video
\* frame has payload [0x01][w u16 LE][h u16 LE][eight zero bytes][jpeg] and
\* the client's request_and_receive_frame returns exactly Some(w, h, jpeg) for
\* it; it returns None exactly when the frame it read is not a Video frame or
\* has fewer than 13 payload bytes.
C26_VideoFrameRoundTrip ==
    /\ (unit.fn = "send_video_frame" /\ unit.in.width < 65536 /\ unit.in.height < 65536)
           => /\ unit.payload.head =
                     <<1, unit.in.width % 256, unit.in.width \div 256,
                       unit.in.height % 256, unit.in.height \div 256,
                       0, 0, 0, 0, 0, 0, 0, 0>>
              /\ unit.payload.data = unit.in.data
              /\ unit.wire.hdr[1] = 1
              /\ unit.out = Ok(Some(<<unit.in.width, unit.in.height, unit.in.data>>))
    /\ unit.fn = "request_and_receive_frame"
           => (unit.out = Ok(None)
                  <=> (unit.in.channel # "Video" \/ PayloadLen(unit.in.payload) < 13))

\* b is the little-endian two's complement layout of the i32 x.
IsI32LE(b, x) ==
    /\ Len(b) = 4
    /\ \A i \in 1 .. 4 : b[i] \in 0 .. 255
    /\ b[1] + 256 * b[2] + 65536 * b[3]
           + 16777216 * (IF x < 0 THEN b[4] - 256 ELSE b[4]) = x

\* C27: every send_mouse(x, y, kind, button) with kind in {move, down, up,
\* scroll} and every send_key(code, pressed) writes one Input frame with the
\* little-endian layout move = [1][x][y], down/up = [2][button][pressed][x][y],
\* scroll = [3][dx][dy], key = [4 or 5][code u16 LE][0], and the host's
\* handle_input calls move_mouse(x, y), mouse_button(button or 0, kind = down,
\* x, y), mouse_scroll(x, y), key_event(code, pressed) with the same arguments.
C27_InputLayoutsAgree ==
    /\ (unit.fn = "send_mouse" /\ unit.in.event_type \in {"move", "down", "up", "scroll"})
           => LET i == unit.in
                  p == unit.payload[1]
                  b == IF i.button = None THEN 0 ELSE i.button[1]
                  n == Len(p)
              IN  /\ Len(unit.out.frames) = 1
                  /\ unit.out.frames[1].hdr = <<2, 0, 0, n>>
                  /\ unit.out.frames[1].body.head = p
                  /\ IsI32LE(SubSeq(p, n - 7, n - 4), i.x)
                  /\ IsI32LE(SubSeq(p, n - 3, n), i.y)
                  /\ i.event_type = "move"
                         => /\ n = 9 /\ p[1] = 1
                            /\ unit.out.calls = <<Inject("move_mouse", <<i.x, i.y>>)>>
                  /\ i.event_type \in {"down", "up"}
                         => /\ n = 11 /\ p[1] = 2 /\ p[2] = b
                            /\ p[3] = (IF i.event_type = "down" THEN 1 ELSE 0)
                            /\ unit.out.calls =
                                   <<Inject("mouse_button",
                                            <<b, i.event_type = "down", i.x, i.y>>)>>
                  /\ i.event_type = "scroll"
                         => /\ n = 9 /\ p[1] = 3
                            /\ unit.out.calls = <<Inject("mouse_scroll", <<i.x, i.y>>)>>
    /\ unit.fn = "send_key"
           => LET i == unit.in IN
              /\ unit.payload[1] = <<IF i.pressed THEN 4 ELSE 5,
                                     i.key_code % 256, i.key_code \div 256, 0>>
              /\ Len(unit.out.frames) = 1
              /\ unit.out.frames[1].hdr = <<2, 0, 0, 4>>
              /\ unit.out.frames[1].body.head = unit.payload[1]
              /\ unit.out.calls = <<Inject("key_event", <<i.key_code, i.pressed>>)>>

C27_Witness ==
    /\ unit.fn = "send_mouse"
    /\ unit.in.event_type = "down"
    /\ unit.in.x = -300
    /\ unit.in.y = 70000
    /\ unit.in.button = Some(2)
    /\ unit.payload = Some(<<2, 2, 1, 212, 254, 255, 255, 112, 17, 1, 0>>)
    /\ unit.out.calls = <<Inject("mouse_button", <<2, TRUE, -300, 70000>>)>>

C29_RegistrationBytes ==
    unit.fn = "registration"
        => LET id == unit.in.id
               target == SelectSeq(unit.in.remote_id, LAMBDA b : b \in 48 .. 57)
               n == Len(id)
               t == Len(target)
           IN  /\ id = <<49, 49, 49, 50, 50, 50, 51, 51, 51>>
                     => unit.host = <<1, 0, 9, 49, 49, 49, 50, 50, 50, 51, 51, 51>>
               /\ unit.host = <<1, n \div 256, n % 256>> \o id
               /\ unit.client = <<2, n \div 256, n % 256>> \o id
                                    \o <<t \div 256, t % 256>> \o target

C29_Witness ==
    /\ unit.fn = "registration"
    /\ unit.host = <<1, 0, 9, 49, 49, 49, 50, 50, 50, 51, 51, 51>>
    /\ unit.client = <<2, 0, 9, 49, 49, 49, 50, 50, 50, 51, 51, 51,
                       0, 9, 57, 56, 55, 54, 53, 52, 51, 50, 49>>

\* C30: device_id() is n = (hash of the two public keys) mod 10^9 written as
\* nine decimal digits with leading zeros, in three groups of three separated
\* by single spaces, for every n in [0, 10^9); n = 123456789 gives
\* "123 456 789".
C30_DeviceIdFormat ==
    unit.fn = "device_id"
        => LET n == unit.num
               d == unit.out
               digits == <<d[1], d[2], d[3], d[5], d[6], d[7], d[9], d[10], d[11]>>
           IN  /\ n \in 0 .. 999999999
               /\ (\A i \in 5 .. 8 : unit.in[i] = 0) /\ unit.in[4] < 128
                     => n = (unit.in[1] + 256 * unit.in[2] + 65536 * unit.in[3]
                                + 16777216 * unit.in[4]) % 1000000000
               /\ Len(d) = 11
               /\ d[4] = 32 /\ d[8] = 32
               /\ \A i \in 1 .. 9 : digits[i] \in 48 .. 57
               /\ (digits[1] - 48) * 100000000 + (digits[2] - 48) * 10000000
                      + (digits[3] - 48) * 1000000 + (digits[4] - 48) * 100000
                      + (digits[5] - 48) * 10000 + (digits[6] - 48) * 1000
                      + (digits[7] - 48) * 100 + (digits[8] - 48) * 10
                      + (digits[9] - 48) = n
               /\ n = 123456789
                     => d = <<49, 50, 51, 32, 52, 53, 54, 32, 55, 56, 57>>

C30_Witness ==
    /\ unit.fn = "device_id"
    /\ unit.num = 7
    /\ unit.out = <<48, 48, 48, 32, 48, 48, 48, 32, 48, 48, 55>>

\* C31: every frame the client writes on the relay is dispatched by the host
\* exactly once and in the order sent: a step changes the relay stream towards
\* the host only by appending a written frame, by taking the frame at its head
\* whole (run_once, or the relay branch of the P2P wait), or by closing the
\* session; no frame is altered or lost in the stream, whichever branch of the
\* select wins.
C31_RelayFramesInOrder ==
    [][\/ host_session' = "None"
       \/ \E k \in {0, 1} :
            /\ Len(toHost) >= k
            /\ Len(toHost') >= Len(toHost) - k
            /\ SubSeq(toHost', 1, Len(toHost) - k) = SubSeq(toHost, 1 + k, Len(toHost))
            /\ k = 1 => hostPc \in {"read", "p2p_select"}]_vars

\* C32: every request_and_receive_frame returns the Video frame the host sent
\* for that very request; an acknowledgment of an earlier set_black_screen or
\* set_input_block is never what it reads, so it never returns None or the
\* frame of an earlier request.
C32_RequestGetsOwnFrame ==
    unit.fn = "client_calls" =>
        \A i \in DOMAIN unit.out : unit.out[i].ret = Some(unit.out[i].own)

\* C33: the active session id is always None or a key of the session map,
\* under every interleaving of connect_to_remote, disconnect_session (also when
\* disconnect fails), disconnect_all_sessions and set_active_session.
\* (Read at the states where no command holds the session map, which leaves
\* out the moments inside a disconnect.)
C33_ActiveIsNoneOrKey ==
    app.lock = 0 =>
        (app.active_session_id = None \/ app.active_session_id[1] \in app.client_sessions)

\* C34: no operation of a client session installs a Secure Channel: channel is
\* None in every reachable state of the client, and every frame on its way to
\* the host is plaintext.
C34_ClientNeverSeals ==
    /\ client.channel = "None"
    /\ \A i \in DOMAIN toHost : ~toHost[i].enc

\* The host has answered a first handshake message, and a key event written
\* by the connected client is on its way.
C34_Witness ==
    /\ clientPc = "session"
    /\ obs.hs2Sent
    /\ \E i \in DOMAIN toHost : toHost[i].msg = "KEY_DOWN" /\ ~toHost[i].enc

\* C35: on the relay socket the client writes the registration, reads the
\* reply, then (P2P enabled) writes P2P_OFFER and reads P2P_ANSWER, then writes
\* exactly one of P2P_READY and P2P_FAILED; the session, and with it any session
\* frame, comes only after that.  (Stated for the connects whose read of the
\* answer succeeds.)
C35_ControlPlaneSequential ==
    (unit.fn = "connect_with_p2p" /\ unit.in.readOk) =>
        LET registered == <<Written("registration"), WasRead("reply")>>
            negotiated == registered \o <<Written("P2P_OFFER"), WasRead("P2P_ANSWER")>>
        IN  unit.out.wire \in
                IF unit.in.p2p_enabled
                THEN {Append(negotiated, Written(w)) : w \in {"P2P_READY", "P2P_FAILED"}}
                ELSE {registered}

\* The addresses a host advertises, in the order the client is to dial them.
Candidates(x) ==
    (IF x.local_addr # None THEN <<x.local_addr[1]>> ELSE <<>>)
        \o (IF x.public_addr # None THEN <<x.public_addr[1]>> ELSE <<>>)

\* C36: after the host's P2P_ANSWER the client dials the host's local address,
\* then its public address, up to and including the first that accepts, and
\* writes P2P_READY if one accepted and P2P_FAILED otherwise; no advertised
\* address is skipped before a success.
C36_DialsLocalThenPublic ==
    (unit.fn = "connect_with_p2p" /\ unit.in.p2p_enabled /\ unit.in.readOk) =>
        LET cands == Candidates(unit.in.host)
            reach == Reach(unit.in.host, unit.in.localUp, unit.in.publicUp)
            hits == {i \in DOMAIN cands : cands[i] \in reach}
            n == IF hits = {} THEN Len(cands)
                 ELSE CHOOSE i \in hits : \A j \in hits : i <= j
        IN  /\ unit.out.dialed = SubSeq(cands, 1, n)
            /\ unit.out.wire[Len(unit.out.wire)] =
                   Written(IF hits # {} THEN "P2P_READY" ELSE "P2P_FAILED")

\* C37: while the host waits for the P2P connection, a frame read from the
\* relay is handled without a panic, whatever its channel and also when its
\* payload is empty.
C37_RelayFrameNeverPanics ==
    unit.fn = "select_relay_frame" => unit.out # "panic"

\* C38: every Video frame sent in answer to a request carries a non-empty JPEG
\* from byte 13 on, under the declared width and height; when the screen did
\* not change within the timeout it is the cached JPEG, after any number of
\* unchanged reports in a row.
C38_VideoFrameCarriesJpeg ==
    (unit.fn = "capture" /\ unit.out.ok) =>
        /\ PayloadFrom13(unit.out.val) = Jpeg
        /\ from_le_bytes(unit.out.val.head[2], unit.out.val.head[3]) = 1920
        /\ from_le_bytes(unit.out.val.head[4], unit.out.val.head[5]) = 1080

\* C39: after any sequence of set_p2p_enabled(v) and
\* update_setting("p2p_enabled", Bool(v)) calls the two copies of the P2P
\* setting are equal.
C39_P2PSettingCopiesEqual ==
    unit.fn = "config" => unit.out.p2p_enabled = unit.out.settings.p2p_enabled

\* C40: on a new QosManager a run of record_rtt calls with an RTT below 50 ms
\* raises the target FPS above INIT_FPS, and a following run with an RTT of
\* 300 ms or more lowers it again, to a value below MAX_FPS.  (Stated for calls
\* that are more than 500 ms apart, so that each of them adjusts.)
C40_QosFollowsNetwork ==
    (unit.fn = "qos" /\ unit.in.elapsed) =>
        /\ unit.after_low > INIT_FPS
        /\ unit.after_high < unit.after_low
        /\ unit.after_high < MAX_FPS

\* C10: while no session is installed after a fatal error, the supervisor is
\* in its reconnect delay or dialling a relay: it has not stopped trying.
C10_KeepsReconnecting ==
    (mode = "gui" /\ host_session = "None") => supPc \in {"sleep5", "dial"}

====
